---- MODULE Spec2Model ----
(***************************************************************************)
(* Subscription engine of the artale broadcast bot: the per-user keyword   *)
(* filter records kept in the document store, and the SubscriberService    *)
(* operations (subscribe, unsubscribe, partialUnsubscribe, getSubscription,*)
(* isSubscribed) that read and write them through DatabaseService.         *)
(*                                                                         *)
(* A keyword is a sequence of characters, a message-type list is a         *)
(* sequence of type names (the code keeps arrays), a record is             *)
(* [channelId, keywordFilters].  An optional value (null or a record) is a *)
(* sequence of length 0 or 1.                                              *)
(*                                                                         *)
(* The feed listener (WebSocketService) is modelled next to it: the        *)
(* new_message case of handleMessage with its set of processed message ids,*)
(* and broadcastToDiscord, which groups the matching subscribers by        *)
(* channel and sends one message per channel.                              *)
(***************************************************************************)
EXTENDS Naturals, Sequences, FiniteSets, TLC

VARIABLES store, last, pre, result, calls,
          ws, pingInterval, reconnectAttempts, reconnectTimeout,
          processedMessageIds, frame, broadcasting, fanout,
          pingHandle, delay, subscribed, wire,
          tasks, destroyed, delivered

\* The fields of WebSocketService that hold the state of the feed connection.
\* ws is the readyState of the current socket ("aborting" is CLOSING for a
\* socket closed before it had opened), pingInterval the number of
\* ping timers running and pingHandle the state of the one the field refers
\* to, reconnectTimeout whether the reconnect timer is pending and delay the
\* delay it was last set with, subscribed the number of subscribe_new frames
\* sent on the current socket, wire the frame handed to ws.send last.
connection ==
  <<ws, pingInterval, pingHandle, reconnectAttempts, reconnectTimeout, delay,
    subscribed, wire>>

\* What has happened to the listener so far: whether onModuleDestroy has been
\* called, and the payloads the new_message frames have delivered.
history == <<destroyed, delivered>>

\* The listener: the connection, the processed ids, the frame handled last,
\* the payload of the broadcast in flight and the outcome of the last one.
listener ==
  <<connection, history, processedMessageIds, frame, broadcasting, fanout>>

\* tasks holds the commands being handled concurrently: for each of them the
\* call, the record its read returned, and what it is about to write and
\* return.
vars == <<store, last, pre, result, calls, tasks, listener>>

(***************************************************************************)
(* Bounds and input alphabets.                                             *)
(***************************************************************************)
MaxReq == 2

\* The commands that can be in the middle of their handling at once.
Processes == {1, 2}

\* Every operation reads and writes the one record keyed by its userId, so the
\* engine is explored on a single user's record.
Users == {"u1"}

Channels == {"c1", "c2"}

Keywords == {<<"a">>, <<"A">>, <<"b">>}

TypeLists == {<<>>, <<"buy">>, <<"sell">>, <<"buy", "sell">>}

\* Filters of a request: a keyword with one message type, or with both.
FilterInputs == [keyword : Keywords, messageTypes : {<<"buy">>, <<"sell">>}]

SeqsUpTo(S, n) == UNION {[1..k -> S] : k \in 0..n}

KeywordLists == SeqsUpTo(Keywords, MaxReq)

\* The requests handed to subscribe: every list of single-type filters, and the
\* lists the command handler builds for types = both (each keyword with the
\* shared list buy, sell).
Requests ==
  SeqsUpTo(FilterInputs, MaxReq) \cup
  {[i \in DOMAIN K |-> [keyword |-> K[i], messageTypes |-> <<"buy", "sell">>]] :
     K \in KeywordLists}

(***************************************************************************)
(* String and array helpers of the language runtime, as the code uses them.*)
(***************************************************************************)
LowerChar(c) ==
  CASE c = "A" -> "a"
    [] c = "B" -> "b"
    [] OTHER -> c

toLowerCase(s) == [i \in DOMAIN s |-> LowerChar(s[i])]

includes(arr, x) == \E i \in DOMAIN arr : arr[i] = x

None == <<>>

Some(r) == <<r>>

NoTasks == [p \in Processes |-> None]

(***************************************************************************)
(* DatabaseService: the store keyed by userId.                             *)
(***************************************************************************)
getSubscriber(db, userId) ==
  IF db[userId] = None
    THEN None
    ELSE Some([channelId |-> db[userId][1].channelId,
               keywordFilters |-> db[userId][1].keywordFilters])

\* Variant: the write adds the given filters to those the record already has.
saveAddingToOld(db, userId, channelId, keywordFilters, merge) ==
  [db EXCEPT ![userId] =
     Some([channelId |-> channelId,
           keywordFilters |-> IF db[userId] # None /\ ~merge
                                THEN db[userId][1].keywordFilters \o keywordFilters
                                ELSE keywordFilters])]

\* Variant: a merge write that keeps the destination the record already has.
saveKeepingChannel(db, userId, channelId, keywordFilters, merge) ==
  [db EXCEPT ![userId] =
     Some([channelId |-> IF merge /\ db[userId] # None
                           THEN db[userId][1].channelId
                           ELSE channelId,
           keywordFilters |-> keywordFilters])]

saveSubscriberWithFilters(db, userId, channelId, keywordFilters, merge) ==
  [db EXCEPT ![userId] = Some([channelId |-> channelId,
                               keywordFilters |-> keywordFilters])]

removeSubscriber(db, userId) == [db EXCEPT ![userId] = None]

SaveCall(userId, channelId, keywordFilters, merge) ==
  <<"saveSubscriberWithFilters", userId, channelId, keywordFilters, merge>>

RemoveCall(userId) == <<"removeSubscriber", userId>>

(***************************************************************************)
(* SubscriberService.mergeKeywordFilters                                   *)
(***************************************************************************)
\* Variant: the types are pushed to an array instead of added to a Set.
AddTypesNoDedup(set, types) == set \o types

\* Set.add of each type of a filter, in order: the Set keeps insertion order.
RECURSIVE AddTypes(_, _)
AddTypes(set, types) ==
  IF types = <<>>
    THEN set
    ELSE AddTypes(IF includes(set, Head(types)) THEN set
                  ELSE Append(set, Head(types)),
                  Tail(types))

\* Variant: a keyword's types are replaced by those of the latest filter.
RECURSIVE CollectTypesReplacing(_, _)
CollectTypesReplacing(keywordMap, filters) ==
  IF filters = <<>>
    THEN keywordMap
    ELSE LET filter == Head(filters)
             lowerKeyword == toLowerCase(filter.keyword)
             replaced == [k \in DOMAIN keywordMap \cup {lowerKeyword} |->
                            IF k = lowerKeyword THEN filter.messageTypes
                            ELSE keywordMap[k]]
         IN  CollectTypesReplacing(replaced, Tail(filters))

\* One forEach pass that accumulates message types per lower-cased keyword.
\* keywordMap is a function from the lower-cased keywords seen so far.
RECURSIVE CollectTypes(_, _)
CollectTypes(keywordMap, filters) ==
  IF filters = <<>>
    THEN keywordMap
    ELSE LET filter == Head(filters)
             lowerKeyword == toLowerCase(filter.keyword)
             seeded == IF lowerKeyword \in DOMAIN keywordMap
                         THEN keywordMap
                         ELSE [k \in DOMAIN keywordMap \cup {lowerKeyword} |->
                                 IF k = lowerKeyword THEN <<>> ELSE keywordMap[k]]
             added == [seeded EXCEPT ![lowerKeyword] =
                         AddTypes(seeded[lowerKeyword], filter.messageTypes)]
         IN  CollectTypes(added, Tail(filters))

\* One forEach pass that emits a filter for each keyword not yet processed.
\* acc is [result, processedKeywords].
RECURSIVE EmitFilters(_, _, _)
EmitFilters(acc, keywordMap, filters) ==
  IF filters = <<>>
    THEN acc
    ELSE LET filter == Head(filters)
             lowerKeyword == toLowerCase(filter.keyword)
             next == IF lowerKeyword \notin acc.processedKeywords
                       THEN [result |-> Append(acc.result,
                                         [keyword |-> filter.keyword,
                                          messageTypes |-> keywordMap[lowerKeyword]]),
                             processedKeywords |->
                               acc.processedKeywords \cup {lowerKeyword}]
                       ELSE acc
         IN  EmitFilters(next, keywordMap, Tail(filters))

\* Variant: the requested keywords are emitted before the existing ones.
mergeNewFirst(existing, newFilters) ==
  LET keywordMap == CollectTypes(CollectTypes(<<>>, existing), newFilters)
      first == EmitFilters([result |-> <<>>, processedKeywords |-> {}],
                           keywordMap, newFilters)
  IN  EmitFilters(first, keywordMap, existing).result

mergeKeywordFilters(existing, newFilters) ==
  LET keywordMap == CollectTypes(CollectTypes(<<>>, existing), newFilters)
      first == EmitFilters([result |-> <<>>, processedKeywords |-> {}],
                           keywordMap, existing)
  IN  EmitFilters(first, keywordMap, newFilters).result

(***************************************************************************)
(* SubscriberService.subscribe                                             *)
(***************************************************************************)
\* Variant: the request is normalised through the merge also when no record exists.
subscribeAlwaysMerging(db, userId, channelId, keywordFilters) ==
  LET existingConfig == getSubscriber(db, userId)
      shouldMerge == existingConfig # None
      finalKeywordFilters ==
        mergeKeywordFilters(IF shouldMerge THEN existingConfig[1].keywordFilters
                            ELSE <<>>,
                            keywordFilters)
  IN  [db |-> saveSubscriberWithFilters(db, userId, channelId,
                                        finalKeywordFilters, shouldMerge),
       result |-> [channelId |-> channelId,
                   keywordFilters |-> finalKeywordFilters],
       calls |-> <<SaveCall(userId, channelId, finalKeywordFilters, shouldMerge)>>]

\* What one subscribe call returns and which store calls it issues.
subscribe(db, userId, channelId, keywordFilters) ==
  LET existingConfig == getSubscriber(db, userId)
      shouldMerge == existingConfig # None
      finalKeywordFilters ==
        IF shouldMerge
          THEN mergeKeywordFilters(existingConfig[1].keywordFilters, keywordFilters)
          ELSE keywordFilters
  IN  [db |-> saveSubscriberWithFilters(db, userId, channelId,
                                        finalKeywordFilters, shouldMerge),
       result |-> [channelId |-> channelId,
                   keywordFilters |-> finalKeywordFilters],
       calls |-> <<SaveCall(userId, channelId, finalKeywordFilters, shouldMerge)>>]

(***************************************************************************)
(* SubscriberService.unsubscribe                                           *)
(***************************************************************************)
\* Variant: the delete is issued without looking for the record first.
unsubscribeWithoutCheck(db, userId) ==
  [db |-> removeSubscriber(db, userId), result |-> TRUE,
   calls |-> <<RemoveCall(userId)>>]

unsubscribe(db, userId) ==
  LET existingConfig == getSubscriber(db, userId)
  IN  IF existingConfig = None
        THEN [db |-> db, result |-> FALSE, calls |-> <<>>]
        ELSE [db |-> removeSubscriber(db, userId),
              result |-> TRUE,
              calls |-> <<RemoveCall(userId)>>]

(***************************************************************************)
(* SubscriberService.partialUnsubscribe                                    *)
(***************************************************************************)
\* Localised names used in the confirmation text.
RemovedAll == "all"

TypeName(t) == IF t = "buy" THEN "buying" ELSE "selling"

\* removedTypes.map(t => t === 'buy' ? ... : ...)
TypeNames(types) == [i \in DOMAIN types |-> TypeName(types[i])]

\* keywords.map(k => k.toLowerCase())
LowerAll(keywords) == [i \in DOMAIN keywords |-> toLowerCase(keywords[i])]

\* Variant: a filter reduced to no type is kept with its empty type list.
subtractTypesKeepEmpty(filter, messageTypes) ==
  LET remainingTypes == SelectSeq(filter.messageTypes,
                                  LAMBDA type : ~includes(messageTypes, type))
      removedTypes == SelectSeq(filter.messageTypes,
                                LAMBDA type : includes(messageTypes, type))
  IN  IF Len(remainingTypes) # Len(filter.messageTypes)
        THEN [kept |-> <<[keyword |-> filter.keyword,
                          messageTypes |-> remainingTypes]>>,
              hasChanges |-> TRUE,
              removedItems |-> <<<<filter.keyword, TypeNames(removedTypes)>>>>]
        ELSE [kept |-> <<filter>>, hasChanges |-> FALSE, removedItems |-> <<>>]

\* The subtraction applied to one filter: null (dropped), a reduced copy, or the
\* filter itself.  Returns [kept, hasChanges, removedItems] for this filter.
subtractTypes(filter, messageTypes) ==
  LET remainingTypes == SelectSeq(filter.messageTypes,
                                  LAMBDA type : ~includes(messageTypes, type))
      removedTypes == SelectSeq(filter.messageTypes,
                                LAMBDA type : includes(messageTypes, type))
  IN  IF Len(remainingTypes) = 0
        THEN [kept |-> <<>>, hasChanges |-> TRUE,
              removedItems |-> <<<<filter.keyword, RemovedAll>>>>]
        ELSE IF Len(remainingTypes) # Len(filter.messageTypes)
          THEN [kept |-> <<[keyword |-> filter.keyword,
                            messageTypes |-> remainingTypes]>>,
                hasChanges |-> TRUE,
                removedItems |-> <<<<filter.keyword, TypeNames(removedTypes)>>>>]
          ELSE [kept |-> <<filter>>, hasChanges |-> FALSE, removedItems |-> <<>>]

\* Variant: the stored keyword is compared as written, not lower-cased.
byKeywordAsWritten(filter, keywordsLower, messageTypes) ==
  IF includes(keywordsLower, filter.keyword)
    THEN IF Len(messageTypes) = 0
           THEN [kept |-> <<>>, hasChanges |-> TRUE,
                 removedItems |-> <<<<filter.keyword, RemovedAll>>>>]
           ELSE subtractTypes(filter, messageTypes)
    ELSE [kept |-> <<filter>>, hasChanges |-> FALSE, removedItems |-> <<>>]

\* The map callback of the branch taken when keywords were given.
byKeyword(filter, keywordsLower, messageTypes) ==
  IF includes(keywordsLower, toLowerCase(filter.keyword))
    THEN IF Len(messageTypes) = 0
           THEN [kept |-> <<>>, hasChanges |-> TRUE,
                 removedItems |-> <<<<filter.keyword, RemovedAll>>>>]
           ELSE subtractTypes(filter, messageTypes)
    ELSE [kept |-> <<filter>>, hasChanges |-> FALSE, removedItems |-> <<>>]

\* Variant: when types are given they are subtracted from every filter, the
\* requested keywords notwithstanding.
RECURSIVE mapFiltersEveryFilter(_, _, _)
mapFiltersEveryFilter(filters, keywords, messageTypes) ==
  IF filters = <<>>
    THEN [updatedFilters |-> <<>>, hasChanges |-> FALSE, removedItems |-> <<>>]
    ELSE LET one == IF Len(keywords) > 0 /\ Len(messageTypes) = 0
                      THEN byKeyword(Head(filters), LowerAll(keywords),
                                     messageTypes)
                      ELSE subtractTypes(Head(filters), messageTypes)
             rest == mapFiltersEveryFilter(Tail(filters), keywords, messageTypes)
         IN  [updatedFilters |-> one.kept \o rest.updatedFilters,
              hasChanges |-> one.hasChanges \/ rest.hasChanges,
              removedItems |-> one.removedItems \o rest.removedItems]

\* updatedFilters.map(...).filter(f => f !== null), with the side effects on
\* hasChanges and removedItems folded in.
RECURSIVE mapFilters(_, _, _)
mapFilters(filters, keywords, messageTypes) ==
  IF filters = <<>>
    THEN [updatedFilters |-> <<>>, hasChanges |-> FALSE, removedItems |-> <<>>]
    ELSE LET one == IF Len(keywords) > 0
                      THEN byKeyword(Head(filters), LowerAll(keywords),
                                     messageTypes)
                      ELSE subtractTypes(Head(filters), messageTypes)
             rest == mapFilters(Tail(filters), keywords, messageTypes)
         IN  [updatedFilters |-> one.kept \o rest.updatedFilters,
              hasChanges |-> one.hasChanges \/ rest.hasChanges,
              removedItems |-> one.removedItems \o rest.removedItems]

\* Variant: every failure returns the empty result of the no-record case.
FailureEmpty(remainingFilters) ==
  [success |-> FALSE, remainingCount |-> 0,
   removedItems |-> <<>>, remainingFilters |-> <<>>]

Failure(remainingFilters) ==
  [success |-> FALSE, remainingCount |-> Len(remainingFilters),
   removedItems |-> <<>>, remainingFilters |-> remainingFilters]

\* Variant: the outcome is stored without looking at hasChanges.
applyChangesUnchecked(db, userId, existingConfig, m) ==
  IF Len(m.updatedFilters) = 0
    THEN [db |-> removeSubscriber(db, userId),
          result |-> [success |-> TRUE, remainingCount |-> 0,
                      removedItems |-> m.removedItems,
                      remainingFilters |-> <<>>],
          calls |-> <<RemoveCall(userId)>>]
  ELSE [db |-> saveSubscriberWithFilters(db, userId,
                  existingConfig[1].channelId, m.updatedFilters, FALSE),
        result |-> [success |-> TRUE,
                    remainingCount |-> Len(m.updatedFilters),
                    removedItems |-> m.removedItems,
                    remainingFilters |-> m.updatedFilters],
        calls |-> <<SaveCall(userId, existingConfig[1].channelId,
                             m.updatedFilters, FALSE)>>]

\* The end of partialUnsubscribe, once the filters have been mapped: nothing
\* changed, nothing left (delete), or the reduced list is saved.
applyChanges(db, userId, existingConfig, m) ==
  IF ~m.hasChanges
    THEN [db |-> db,
          result |-> Failure(existingConfig[1].keywordFilters),
          calls |-> <<>>]
  ELSE IF Len(m.updatedFilters) = 0
    THEN [db |-> removeSubscriber(db, userId),
          result |-> [success |-> TRUE, remainingCount |-> 0,
                      removedItems |-> m.removedItems,
                      remainingFilters |-> <<>>],
          calls |-> <<RemoveCall(userId)>>]
  ELSE [db |-> saveSubscriberWithFilters(db, userId,
                  existingConfig[1].channelId, m.updatedFilters, FALSE),
        result |-> [success |-> TRUE,
                    remainingCount |-> Len(m.updatedFilters),
                    removedItems |-> m.removedItems,
                    remainingFilters |-> m.updatedFilters],
        calls |-> <<SaveCall(userId, existingConfig[1].channelId,
                             m.updatedFilters, FALSE)>>]

\* Variant: a user without a record is given an empty one.
partialUnsubscribeUpserting(db, userId, keywords, messageTypes) ==
  LET existingConfig == getSubscriber(db, userId)
  IN  IF existingConfig = None
        THEN [db |-> saveSubscriberWithFilters(db, userId, "", <<>>, FALSE),
              result |-> Failure(<<>>),
              calls |-> <<SaveCall(userId, "", <<>>, FALSE)>>]
      ELSE IF Len(existingConfig[1].keywordFilters) = 0
        THEN [db |-> db, result |-> Failure(<<>>), calls |-> <<>>]
      ELSE IF Len(keywords) = 0 /\ Len(messageTypes) = 0
        THEN [db |-> db, result |-> Failure(existingConfig[1].keywordFilters),
              calls |-> <<>>]
      ELSE applyChanges(db, userId, existingConfig,
                        mapFilters(existingConfig[1].keywordFilters, keywords,
                                   messageTypes))

partialUnsubscribe(db, userId, keywords, messageTypes) ==
  LET existingConfig == getSubscriber(db, userId)
  IN  IF existingConfig = None
        THEN [db |-> db, result |-> Failure(<<>>), calls |-> <<>>]
      ELSE IF Len(existingConfig[1].keywordFilters) = 0
        THEN [db |-> db, result |-> Failure(<<>>), calls |-> <<>>]
      ELSE IF Len(keywords) = 0 /\ Len(messageTypes) = 0
        THEN [db |-> db, result |-> Failure(existingConfig[1].keywordFilters),
              calls |-> <<>>]
      ELSE applyChanges(db, userId, existingConfig,
                        mapFilters(existingConfig[1].keywordFilters, keywords,
                                   messageTypes))

(***************************************************************************)
(* SubscriberService.getSubscription / isSubscribed                        *)
(***************************************************************************)
getSubscription(db, userId) == getSubscriber(db, userId)

isSubscribed(db, userId) == getSubscriber(db, userId) # None

(***************************************************************************)
(* The state machine.  One command is handled at a time: an operation of   *)
(* the service runs to completion against the store, its arguments, the    *)
(* record it read (pre), its return value (result) and the store calls it  *)
(* issued (calls) stay visible until the handler has replied.              *)
(***************************************************************************)
NoArgs == [op |-> "idle", userId |-> "", channelId |-> "", keywordFilters |-> <<>>,
           keywords |-> <<>>, messageTypes |-> <<>>]

Idle == last.op = "idle"

Ran(out, args) ==
  /\ Idle
  /\ store' = out.db
  /\ last' = args
  /\ pre' = getSubscriber(store, args.userId)
  /\ result' = out.result
  /\ calls' = out.calls
  /\ UNCHANGED <<tasks, listener>>

Subscribe(u, c, F) ==
  Ran(subscribe(store, u, c, F),
      [NoArgs EXCEPT !.op = "subscribe", !.userId = u, !.channelId = c,
                     !.keywordFilters = F])

Unsubscribe(u) ==
  Ran(unsubscribe(store, u), [NoArgs EXCEPT !.op = "unsubscribe", !.userId = u])

PartialUnsubscribe(u, K, T) ==
  Ran(partialUnsubscribe(store, u, K, T),
      [NoArgs EXCEPT !.op = "partialUnsubscribe", !.userId = u,
                     !.keywords = K, !.messageTypes = T])

GetSubscription(u) ==
  Ran([db |-> store, result |-> getSubscription(store, u), calls |-> <<>>],
      [NoArgs EXCEPT !.op = "getSubscription", !.userId = u])

IsSubscribed(u) ==
  Ran([db |-> store, result |-> isSubscribed(store, u), calls |-> <<>>],
      [NoArgs EXCEPT !.op = "isSubscribed", !.userId = u])

\* The handler sends its reply and returns; the next command can be handled.
Reply ==
  /\ ~Idle
  /\ last' = NoArgs
  /\ pre' = None
  /\ result' = FALSE
  /\ calls' = <<>>
  /\ UNCHANGED <<store, tasks, listener>>

\* No broadcast has completed since the last frame.
NoFanout ==
  [payload |-> None, outcome |-> <<>>, groups |-> <<>>, sends |-> <<>>,
   errors |-> <<>>, escaped |-> FALSE]

NothingSent == [type |-> "none", readyState |-> "none"]

\* The listener as constructed: no socket, no timer, no processed id.
Constructed ==
  /\ ws = "none"
  /\ pingInterval = 0
  /\ pingHandle = "unset"
  /\ delay = 0
  /\ subscribed = 0
  /\ wire = NothingSent
  /\ reconnectAttempts = 0
  /\ reconnectTimeout = FALSE
  /\ destroyed = FALSE
  /\ delivered = {}
  /\ processedMessageIds = <<>>
  /\ frame = None
  /\ broadcasting = None
  /\ fanout = NoFanout

Init ==
  /\ store = [u \in Users |-> None]
  /\ last = NoArgs
  /\ pre = None
  /\ result = FALSE
  /\ calls = <<>>
  /\ tasks = NoTasks
  /\ Constructed

Next ==
  \/ \E u \in Users, c \in Channels, F \in Requests : Subscribe(u, c, F)
  \/ \E u \in Users : Unsubscribe(u)
  \/ \E u \in Users, K \in KeywordLists, T \in TypeLists : PartialUnsubscribe(u, K, T)
  \/ \E u \in Users : GetSubscription(u)
  \/ \E u \in Users : IsSubscribed(u)
  \/ Reply

Spec == Init /\ [][Next]_vars

(***************************************************************************)
(* Inputs of the feed listener: the subscribers on file, the broadcast     *)
(* events of the feed and the fate of each delivery.                       *)
(***************************************************************************)
Subscribers == {"u1", "u2", "u3"}

\* The order in which find() returns the records.
FindOrder == <<"u1", "u2", "u3">>

\* Records a subscriber can have on file: none, an empty filter list (first
\* subscribe without keywords), one filter, or several filters.
Records ==
  {None,
   Some([channelId |-> "c1", keywordFilters |-> <<>>]),
   Some([channelId |-> "c1",
         keywordFilters |-> <<[keyword |-> <<"a">>, messageTypes |-> <<"buy">>]>>]),
   Some([channelId |-> "c2",
         keywordFilters |-> <<[keyword |-> <<"a", "B">>,
                               messageTypes |-> <<"buy", "sell">>],
                              [keyword |-> <<"b">>, messageTypes |-> <<"sell">>]>>]),
   Some([channelId |-> "c2",
         keywordFilters |-> <<[keyword |-> <<"b">>, messageTypes |-> <<"buy">>],
                              [keyword |-> <<"b", "a">>,
                               messageTypes |-> <<"buy", "sell">>]>>])}

Stores == [Subscribers -> Records]

Contents == {<<"A", "b">>, <<"b", "c">>}

Payloads ==
  [message_type : {"buy", "sell"}, channel : {<<"1">>}, player_name : {"n"},
   player_id : {<<"p">>}, content : Contents]

\* new_message frames, with and without a payload.
Frames == [type : {"new_message"}, payload : {None} \cup {Some(p) : p \in Payloads}]

\* What happens to the message for one channel: it is sent, channels.fetch
\* throws, the channel is missing or not text based, or channel.send throws.
Outcomes == {"sent", "fetchThrows", "notText", "sendThrows"}

Deliveries == [Channels -> Outcomes]

(***************************************************************************)
(* WebSocketService: duplicate suppression                                 *)
(***************************************************************************)
MaxProcessed == 1000

KeptProcessed == 500

\* The md5 digest taken as injective: the id is the hashed string itself.
generateMessageId(payload) ==
  IF payload = None THEN <<>>
  ELSE payload[1].player_id \o <<"-">> \o payload[1].content \o <<"-">> \o
       <<payload[1].message_type>> \o <<"-">> \o payload[1].channel

\* Variant: the cut keeps the ids inserted first.
cleanupKeepingOldest(ids) ==
  IF Len(ids) > MaxProcessed
    THEN SubSeq(ids, 1, KeptProcessed)
    ELSE ids

\* processedMessageIds is a Set: its elements in insertion order.
cleanupProcessedMessages(ids) ==
  IF Len(ids) > MaxProcessed
    THEN SubSeq(ids, Len(ids) - KeptProcessed + 1, Len(ids))
    ELSE ids

\* Variant: the id is recorded but never looked up.
handleNewMessageUnchecked(ids, message) ==
  IF message.payload = None
    THEN [processedMessageIds |-> ids, broadcast |-> None]
    ELSE LET messageId == generateMessageId(message.payload)
         IN  [processedMessageIds |->
                cleanupProcessedMessages(
                  IF includes(ids, messageId) THEN ids ELSE Append(ids, messageId)),
              broadcast |-> message.payload]

\* Variant: the id is looked up before the broadcast is started and recorded
\* only once it has completed, too late for a frame handled in between.
handleNewMessageInsertLater(ids, message) ==
  IF message.payload = None
    THEN [processedMessageIds |-> ids, broadcast |-> None]
    ELSE LET messageId == generateMessageId(message.payload)
         IN  IF includes(ids, messageId)
               THEN [processedMessageIds |-> ids, broadcast |-> None]
               ELSE [processedMessageIds |-> ids, broadcast |-> message.payload]

\* case 'new_message' of handleMessage: the ids afterwards and the payload
\* handed to broadcastToDiscord, if any.
handleNewMessage(ids, message) ==
  IF message.payload = None
    THEN [processedMessageIds |-> ids, broadcast |-> None]
    ELSE LET messageId == generateMessageId(message.payload)
         IN  IF includes(ids, messageId)
               THEN [processedMessageIds |-> ids, broadcast |-> None]
               ELSE [processedMessageIds |->
                       cleanupProcessedMessages(Append(ids, messageId)),
                     broadcast |-> message.payload]

(***************************************************************************)
(* DatabaseService.getAllSubscribers and WebSocketService.broadcastToDiscord*)
(***************************************************************************)
\* The Map of the records on file, as the sequence of its entries.
getAllSubscribers(db) ==
  LET found == SelectSeq(FindOrder, LAMBDA u : db[u] # None)
  IN  [i \in DOMAIN found |->
         [userId |-> found[i], channelId |-> db[found[i]][1].channelId,
          keywordFilters |-> db[found[i]][1].keywordFilters]]

\* String.prototype.includes on sequences of characters.
includesString(s, sub) ==
  /\ Len(sub) <= Len(s)
  /\ \E i \in 1..(Len(s) - Len(sub) + 1) : SubSeq(s, i, i + Len(sub) - 1) = sub

typeText(payload) == IF payload.message_type = "buy" THEN "buying" ELSE "selling"

\* Variant: the keyword alone decides, the message types of the filter are
\* not looked at.
filterMatchesAnyType(filter, payload) ==
  includesString(toLowerCase(payload.content), toLowerCase(filter.keyword))

\* messageTypeMatches && keywordMatches
filterMatches(filter, payload) ==
  /\ includes(filter.messageTypes, payload.message_type)
  /\ includesString(toLowerCase(payload.content), toLowerCase(filter.keyword))

\* The reasons pushed for one record: a pair <<keyword, type text>> for every
\* filter that matches, in the order of the filters.
matchedReasons(keywordFilters, payload) ==
  IF Len(keywordFilters) > 0
    THEN LET matching == SelectSeq(keywordFilters,
                                   LAMBDA filter : filterMatches(filter, payload))
         IN  [i \in DOMAIN matching |-> <<matching[i].keyword, typeText(payload)>>]
    ELSE <<>>

\* Variant: every user with a reason opens a group of its own.
RECURSIVE onePerUser(_, _, _)
onePerUser(subscribers, payload, n) ==
  IF n = 0 THEN <<>>
  ELSE LET groups == onePerUser(subscribers, payload, n - 1)
           reasons == matchedReasons(subscribers[n].keywordFilters, payload)
       IN  IF Len(reasons) > 0
             THEN Append(groups,
                         [channelId |-> subscribers[n].channelId,
                          users |-> <<[userId |-> subscribers[n].userId,
                                       reason |-> reasons]>>])
             ELSE groups

\* The Map channelId -> users with reasons after the first n entries of the
\* subscribers, as the sequence of its entries.
RECURSIVE channelToUsersWithReasons(_, _, _)
channelToUsersWithReasons(subscribers, payload, n) ==
  IF n = 0 THEN <<>>
  ELSE LET groups == channelToUsersWithReasons(subscribers, payload, n - 1)
           channelId == subscribers[n].channelId
           reasons == matchedReasons(subscribers[n].keywordFilters, payload)
           user == [userId |-> subscribers[n].userId, reason |-> reasons]
       IN  IF Len(reasons) > 0
             THEN IF \E g \in DOMAIN groups : groups[g].channelId = channelId
                    THEN [g \in DOMAIN groups |->
                            IF groups[g].channelId = channelId
                              THEN [groups[g] EXCEPT !.users = Append(@, user)]
                              ELSE groups[g]]
                    ELSE Append(groups, [channelId |-> channelId, users |-> <<user>>])
             ELSE groups

\* The message sent to one channel: a line per user of the group (the mention
\* and the reasons) and the embed of the event.
outbound(group, payload) ==
  [channelId |-> group.channelId,
   content |-> [i \in DOMAIN group.users |->
                  <<group.users[i].userId, group.users[i].reason>>],
   embeds |-> <<[title |-> <<typeText(payload), payload.channel>>,
                 description |-> payload.content,
                 player |-> <<payload.player_name, payload.player_id>>,
                 color |-> IF payload.message_type = "buy" THEN 3447003
                           ELSE 15158332]>>]

errorDetails(group, payload) ==
  [channelId |-> group.channelId, messageType |-> payload.message_type,
   channel |-> payload.channel, player |-> payload.player_name,
   contentPreview |-> payload.content, mentionCount |-> Len(group.users)]

\* Variant: the loop over the channels has no try/catch of its own, the first
\* failure ends the broadcast and leaves it as a rejection.
RECURSIVE sendToChannelsUncaught(_, _, _)
sendToChannelsUncaught(groups, payload, outcome) ==
  IF groups = <<>>
    THEN [sends |-> <<>>, errors |-> <<>>, escaped |-> FALSE]
  ELSE LET rest == sendToChannelsUncaught(Tail(groups), payload, outcome)
           o == outcome[Head(groups).channelId]
       IN  IF o = "sent"
             THEN [rest EXCEPT !.sends = <<outbound(Head(groups), payload)>> \o @]
           ELSE IF o = "notText"
             THEN rest
           ELSE [sends |-> <<>>, errors |-> <<>>, escaped |-> TRUE]

\* The loop over the channel groups: the messages sent, the failures logged,
\* and whether an error left the loop.
RECURSIVE sendToChannels(_, _, _)
sendToChannels(groups, payload, outcome) ==
  IF groups = <<>>
    THEN [sends |-> <<>>, errors |-> <<>>, escaped |-> FALSE]
  ELSE LET rest == sendToChannels(Tail(groups), payload, outcome)
           o == outcome[Head(groups).channelId]
       IN  IF o = "sent"
             THEN [rest EXCEPT !.sends = <<outbound(Head(groups), payload)>> \o @]
           ELSE IF o = "notText"
             THEN rest
           ELSE [rest EXCEPT !.errors = <<errorDetails(Head(groups), payload)>> \o @]

\* The outcome of a broadcast: the event and the fate of the deliveries it met
\* with, the channel groups, the messages sent and the failures logged.
broadcastToDiscord(db, payload, outcome) ==
  LET subscribers == getAllSubscribers(db)
      groups == channelToUsersWithReasons(subscribers, payload, Len(subscribers))
      sent == sendToChannels(groups, payload, outcome)
  IN  [payload |-> Some(payload), outcome |-> outcome, groups |-> groups,
       sends |-> sent.sends, errors |-> sent.errors, escaped |-> sent.escaped]

(***************************************************************************)
(* The listener at work: connected and subscribed to the feed, it handles  *)
(* the new_message frames one after the other; the broadcast a frame       *)
(* starts has completed before the next frame is handled.                  *)
(***************************************************************************)
engine == <<store, last, pre, result, calls, tasks>>

NewMessage(message) ==
  /\ broadcasting = None
  /\ LET out == handleNewMessage(processedMessageIds, message)
     IN  /\ processedMessageIds' = out.processedMessageIds
         /\ broadcasting' = out.broadcast
  /\ frame' = Some(message)
  /\ fanout' = NoFanout
  /\ UNCHANGED <<engine, connection, history>>

BroadcastToDiscord(outcome) ==
  /\ broadcasting # None
  /\ fanout' = broadcastToDiscord(store, broadcasting[1], outcome)
  /\ broadcasting' = None
  /\ UNCHANGED <<engine, connection, history, processedMessageIds, frame>>

InitDispatch ==
  /\ store \in Stores
  /\ last = NoArgs
  /\ pre = None
  /\ result = FALSE
  /\ calls = <<>>
  /\ tasks = NoTasks
  /\ ws = "open"
  /\ pingInterval = 1
  /\ pingHandle = "running"
  /\ delay = 0
  /\ subscribed = 1
  /\ wire = [type |-> "subscribe_new", readyState |-> "open"]
  /\ reconnectAttempts = 0
  /\ reconnectTimeout = FALSE
  /\ destroyed = FALSE
  /\ delivered = {}
  /\ processedMessageIds = <<>>
  /\ frame = None
  /\ broadcasting = None
  /\ fanout = NoFanout

NextDispatch ==
  \/ \E message \in Frames : NewMessage(message)
  \/ \E outcome \in Deliveries : BroadcastToDiscord(outcome)

SpecDispatch == InitDispatch /\ [][NextDispatch]_vars

(***************************************************************************)
(* The listener with its set of processed ids close to the high-water      *)
(* mark: the feed has delivered NearFull distinct events, numbered in      *)
(* their order of arrival, and delivers more, old and new.                 *)
(***************************************************************************)
DigitChar(d) ==
  CASE d = 0 -> "0" [] d = 1 -> "1" [] d = 2 -> "2" [] d = 3 -> "3"
    [] d = 4 -> "4" [] d = 5 -> "5" [] d = 6 -> "6" [] d = 7 -> "7"
    [] d = 8 -> "8" [] OTHER -> "9"

\* The decimal digits of n, as a string of the feed.
RECURSIVE Decimal(_)
Decimal(n) ==
  IF n < 10 THEN <<DigitChar(n)>>
  ELSE Decimal(n \div 10) \o <<DigitChar(n % 10)>>

\* The n-th event of the feed: the events differ in their player_id.
EventOf(n) ==
  [message_type |-> "buy", channel |-> <<"1">>, player_name |-> "n",
   player_id |-> Decimal(n), content |-> <<"b">>]

\* The numbers of events already handled when the exploration starts.
NearFull == {MaxProcessed - 1, MaxProcessed}

\* The events delivered from then on: the oldest, those around the cut, the
\* newest handled, and events not seen before.
Redelivered == {1, KeptProcessed, KeptProcessed + 1, KeptProcessed + 2, MaxProcessed}

Fresh == {MaxProcessed + 1, MaxProcessed + 2}

EvictFrames ==
  {[type |-> "new_message", payload |-> Some(EventOf(n))] :
     n \in Redelivered \cup Fresh}

AllSent == [c \in Channels |-> "sent"]

InitEvict ==
  /\ store = [u \in Subscribers |-> None]
  /\ last = NoArgs
  /\ pre = None
  /\ result = FALSE
  /\ calls = <<>>
  /\ tasks = NoTasks
  /\ ws = "open"
  /\ pingInterval = 1
  /\ pingHandle = "running"
  /\ delay = 0
  /\ subscribed = 1
  /\ wire = [type |-> "subscribe_new", readyState |-> "open"]
  /\ reconnectAttempts = 0
  /\ reconnectTimeout = FALSE
  /\ destroyed = FALSE
  /\ delivered = {}
  /\ \E n \in NearFull :
       processedMessageIds = [i \in 1..n |-> generateMessageId(Some(EventOf(i)))]
  /\ frame = None
  /\ broadcasting = None
  /\ fanout = NoFanout

NextEvict ==
  \/ \E message \in EvictFrames : NewMessage(message)
  \/ BroadcastToDiscord(AllSent)

SpecEvict == InitEvict /\ [][NextEvict]_vars

(***************************************************************************)
(* WebSocketService: the connection to the feed, its reconnects and its    *)
(* ping timer.                                                             *)
(***************************************************************************)
maxReconnectAttempts == 10

baseReconnectDelay == 5000

maxReconnectDelay == 30000

\* Ping timers and subscribe_new frames are counted up to these numbers.
MaxTimers == 2

MaxSubscribes == 2

\* Math.pow(2, n) and Math.min
RECURSIVE pow2(_)
pow2(n) == IF n = 0 THEN 1 ELSE 2 * pow2(n - 1)

min(a, b) == IF a <= b THEN a ELSE b

\* Variant: the delay doubles without a cap.
calculateReconnectDelayUncapped(attempts) ==
  baseReconnectDelay * pow2(attempts)

calculateReconnectDelay(attempts) ==
  min(baseReconnectDelay * pow2(attempts), maxReconnectDelay)

\* Variant: the open handler leaves the attempt counter as it is.
attemptsKeptOnOpen(attempts) == attempts

\* The attempt counter as the open handler sets it.
attemptsOnOpen(attempts) == 0

\* Variant: the close handler reconnects whatever the number of attempts.
reconnectsAlways(attempts) == TRUE

\* The test of the close handler: reconnect, or give up.
reconnects(attempts) == attempts < maxReconnectAttempts

\* clearInterval(this.pingInterval), guarded by the field being set.
clearPingInterval(running, handle) ==
  IF handle = "running"
    THEN [pingInterval |-> running - 1, pingHandle |-> "cleared"]
    ELSE [pingInterval |-> running, pingHandle |-> handle]

\* startPingInterval: a new timer, whose handle replaces the one in the field.
startPingInterval(running, handle) ==
  [pingInterval |-> running + 1, pingHandle |-> "running"]

\* subscribeToNewMessages: the frame put on the wire and the count of
\* subscribe_new frames of the socket.
subscribeToNewMessages(readyState, onWire, count) ==
  IF readyState = "open"
    THEN [wire |-> [type |-> "subscribe_new", readyState |-> readyState],
          subscribed |-> count + 1]
    ELSE [wire |-> onWire, subscribed |-> count]

\* Variant: the callback sends without looking at the readyState.
pingUnguarded(readyState, onWire) ==
  [type |-> "ping", readyState |-> readyState]

\* The callback of the ping timer.
ping(readyState, onWire) ==
  IF readyState = "open"
    THEN [type |-> "ping", readyState |-> readyState]
    ELSE onWire

\* The text of an inbound frame: JSON of a message, or text that is no JSON.
FeedPayloads == {p \in Payloads : p.content = <<"A", "b">>}

FeedMessages ==
  [type : {"connection_info", "subscription_confirmed", "pong", "bye"},
   payload : {None}] \cup
  [type : {"new_message"}, payload : {None} \cup {Some(p) : p \in FeedPayloads}]

Data == {<<"garbage">>} \cup {<<"json", m>> : m \in FeedMessages}

\* JSON.parse inside the try of the message handler: the message, or nothing
\* when it throws.
parse(data) == IF data[1] = "json" THEN Some(data[2]) ELSE None

\* What is recorded as the frame handled when the text did not parse.
Unparsed == [type |-> "unparsed", payload |-> None]

\* Variant: a frame of a type the switch does not know is taken for the
\* confirmation of the subscription.
handleMessageUnknownConfirms(message) ==
  CASE message.type = "connection_info" -> "subscribeToNewMessages"
    [] message.type = "pong" -> "nothing"
    [] message.type = "new_message" ->
         IF message.payload # None THEN "broadcastToDiscord" ELSE "nothing"
    [] OTHER -> "startPingInterval"

\* The switch of handleMessage: the method the frame makes it call.
handleMessage(message) ==
  CASE message.type = "connection_info" -> "subscribeToNewMessages"
    [] message.type = "subscription_confirmed" -> "startPingInterval"
    [] message.type = "pong" -> "nothing"
    [] message.type = "new_message" ->
         IF message.payload # None THEN "broadcastToDiscord" ELSE "nothing"
    [] OTHER -> "nothing"

(***************************************************************************)
(* The listener from its construction on.  The handlers run one at a time, *)
(* each to its end; a broadcast started by a frame completes later, while  *)
(* other frames are handled.                                               *)
(***************************************************************************)
\* connect(): a new socket replaces the one in the field.
connect ==
  /\ ws' = "connecting"
  /\ subscribed' = 0

\* The timer of onModuleInit fires.
ModuleInitTimer ==
  /\ ws = "none"
  /\ connect
  /\ UNCHANGED <<engine, history, pingInterval, pingHandle, reconnectAttempts,
                 reconnectTimeout, delay, wire, processedMessageIds, frame,
                 broadcasting, fanout>>

\* The open handler.
Open ==
  /\ ws = "connecting"
  /\ ws' = "open"
  /\ reconnectAttempts' = attemptsOnOpen(reconnectAttempts)
  /\ UNCHANGED <<engine, history, pingInterval, pingHandle, reconnectTimeout, delay,
                 subscribed, wire, processedMessageIds, frame, broadcasting,
                 fanout>>

\* The close handler; the socket closes after it was open, after disconnect,
\* or (following an error event, which only logs) without having opened.
Close ==
  /\ ws \in {"connecting", "open", "closing", "aborting"}
  /\ ws' = "closed"
  /\ LET timer == clearPingInterval(pingInterval, pingHandle)
     IN  /\ pingInterval' = timer.pingInterval
         /\ pingHandle' = timer.pingHandle
  /\ IF reconnects(reconnectAttempts)
       THEN /\ delay' = calculateReconnectDelay(reconnectAttempts)
            /\ reconnectTimeout' = TRUE
       ELSE UNCHANGED <<delay, reconnectTimeout>>
  /\ UNCHANGED <<engine, history, reconnectAttempts, subscribed, wire,
                 processedMessageIds, frame, broadcasting, fanout>>

\* Variant: the reconnect is set up with a timer that keeps firing.
ReconnectTimerRepeating ==
  /\ reconnectTimeout
  /\ reconnectAttempts' = reconnectAttempts + 1
  /\ connect
  /\ UNCHANGED <<engine, history, pingInterval, pingHandle, reconnectTimeout,
                 delay, wire, processedMessageIds, frame, broadcasting, fanout>>

\* The reconnect timer fires.
ReconnectTimer ==
  /\ reconnectTimeout
  /\ reconnectTimeout' = FALSE
  /\ reconnectAttempts' = reconnectAttempts + 1
  /\ connect
  /\ UNCHANGED <<engine, history, pingInterval, pingHandle, delay, wire,
                 processedMessageIds, frame, broadcasting, fanout>>

\* disconnect(): the timers the fields refer to are cleared and the socket,
\* if there is one, is told to close.
disconnect ==
  /\ reconnectTimeout' = FALSE
  /\ LET timer == clearPingInterval(pingInterval, pingHandle)
     IN  /\ pingInterval' = timer.pingInterval
         /\ pingHandle' = timer.pingHandle
  /\ ws' = CASE ws = "open" -> "closing"
             [] ws = "connecting" -> "aborting"
             [] OTHER -> ws
  /\ UNCHANGED <<reconnectAttempts, delay, subscribed, wire>>

\* disconnect() is called.
Disconnect ==
  /\ disconnect
  /\ UNCHANGED <<engine, history, processedMessageIds, frame, broadcasting,
                 fanout>>

\* onModuleDestroy(): disconnect() is called as the application shuts down;
\* that it was called is kept on record.
OnModuleDestroy ==
  /\ disconnect
  /\ destroyed' = TRUE
  /\ UNCHANGED <<engine, delivered, processedMessageIds, frame, broadcasting,
                 fanout>>

\* The message handler of the socket: parse, then handleMessage.
OnMessage(data) ==
  /\ ws \in {"open", "closing"}
  /\ LET parsed == parse(data)
         call == IF parsed = None THEN "nothing" ELSE handleMessage(parsed[1])
         subscription ==
           IF call = "subscribeToNewMessages"
             THEN subscribeToNewMessages(ws, wire, subscribed)
             ELSE [wire |-> wire, subscribed |-> subscribed]
         timer ==
           IF call = "startPingInterval"
             THEN startPingInterval(pingInterval, pingHandle)
             ELSE [pingInterval |-> pingInterval, pingHandle |-> pingHandle]
         out ==
           IF call = "broadcastToDiscord"
             THEN handleNewMessage(processedMessageIds, parsed[1])
             ELSE [processedMessageIds |-> processedMessageIds, broadcast |-> None]
     IN  /\ subscription.subscribed <= MaxSubscribes
         /\ timer.pingInterval <= MaxTimers
         /\ frame' = IF parsed = None THEN Some(Unparsed) ELSE parsed
         /\ wire' = subscription.wire
         /\ subscribed' = subscription.subscribed
         /\ pingInterval' = timer.pingInterval
         /\ pingHandle' = timer.pingHandle
         /\ processedMessageIds' = out.processedMessageIds
         /\ broadcasting' = broadcasting \o out.broadcast
  /\ UNCHANGED <<engine, history, ws, reconnectAttempts, reconnectTimeout, delay, fanout>>

\* A ping timer fires.
PingTimer ==
  /\ pingInterval > 0
  /\ wire' = ping(ws, wire)
  /\ UNCHANGED <<engine, history, ws, pingInterval, pingHandle, reconnectAttempts,
                 reconnectTimeout, delay, subscribed, processedMessageIds,
                 frame, broadcasting, fanout>>

\* One of the broadcasts in flight runs to its end.
BroadcastCompletes(i, outcome) ==
  /\ i \in DOMAIN broadcasting
  /\ fanout' = broadcastToDiscord(store, broadcasting[i], outcome)
  /\ broadcasting' = SubSeq(broadcasting, 1, i - 1) \o
                     SubSeq(broadcasting, i + 1, Len(broadcasting))
  /\ UNCHANGED <<engine, connection, history, processedMessageIds, frame>>

\* The subscribers on file while the feed is followed, and the fates of the
\* deliveries.
FeedStore ==
  [u \in Subscribers |->
     IF u = "u1"
       THEN Some([channelId |-> "c1",
                  keywordFilters |-> <<[keyword |-> <<"a">>,
                                        messageTypes |-> <<"buy">>]>>])
       ELSE None]

FeedDeliveries == {AllSent, [c \in Channels |-> "fetchThrows"]}

InitFeed ==
  /\ store = FeedStore
  /\ last = NoArgs
  /\ pre = None
  /\ result = FALSE
  /\ calls = <<>>
  /\ tasks = NoTasks
  /\ Constructed

NextFeed ==
  \/ ModuleInitTimer
  \/ Open
  \/ Close
  \/ ReconnectTimer
  \/ Disconnect
  \/ \E data \in Data : OnMessage(data)
  \/ PingTimer
  \/ \E i \in 1..Cardinality(FeedPayloads), outcome \in FeedDeliveries :
       BroadcastCompletes(i, outcome)

SpecFeed == InitFeed /\ [][NextFeed]_vars

(***************************************************************************)
(* The listener from its construction to the shutdown of the application   *)
(* and after it: the frames are those that set up the subscription and the *)
(* ping timer.                                                             *)
(***************************************************************************)
StopData ==
  {<<"json", m>> : m \in [type : {"connection_info", "subscription_confirmed"},
                          payload : {None}]}

InitStop == InitFeed

NextStop ==
  \/ ModuleInitTimer
  \/ Open
  \/ Close
  \/ ReconnectTimer
  \/ OnModuleDestroy
  \/ \E data \in StopData : OnMessage(data)
  \/ PingTimer

SpecStop == InitStop /\ [][NextStop]_vars

(***************************************************************************)
(* The listener handling events whose player ids and contents contain the  *)
(* character that generateMessageId joins the fields with.                 *)
(***************************************************************************)
KeyPayloads ==
  [message_type : {"buy"}, channel : {<<"1">>}, player_name : {"n"},
   player_id : {<<"p">>, <<"p", "-", "a">>},
   content : {<<"b">>, <<"a", "-", "b">>}]

KeyFrames == [type : {"new_message"}, payload : {Some(p) : p \in KeyPayloads}]

\* A new_message frame is handled; the event it delivers is kept on record.
KeyMessage(message) ==
  /\ broadcasting = None
  /\ LET out == handleNewMessage(processedMessageIds, message)
     IN  /\ processedMessageIds' = out.processedMessageIds
         /\ broadcasting' = out.broadcast
  /\ frame' = Some(message)
  /\ fanout' = NoFanout
  /\ delivered' = delivered \cup {message.payload[1]}
  /\ UNCHANGED <<engine, connection, destroyed>>

InitKey ==
  /\ InitDispatch
  /\ store = FeedStore

NextKey ==
  \/ \E message \in KeyFrames : KeyMessage(message)
  \/ \E outcome \in FeedDeliveries : BroadcastToDiscord(outcome)

SpecKey == InitKey /\ [][NextKey]_vars

(***************************************************************************)
(* The listener handling events while the load of the subscribers and the  *)
(* deliveries may fail.                                                    *)
(***************************************************************************)
IngestFrames == [type : {"new_message"}, payload : {Some(p) : p \in FeedPayloads}]

\* The records getAllSubscribers returns: none when find threw, for its catch
\* logs and returns an empty Map.
loaded(db, threw) == IF threw THEN [u \in DOMAIN db |-> None] ELSE db

\* The broadcast in flight runs to its end.
Dispatch(outcome, threw) ==
  /\ broadcasting # None
  /\ fanout' = broadcastToDiscord(loaded(store, threw), broadcasting[1], outcome)
  /\ broadcasting' = None
  /\ UNCHANGED <<engine, connection, history, processedMessageIds, frame>>

InitIngest ==
  /\ InitDispatch
  /\ store = FeedStore

NextIngest ==
  \/ \E message \in IngestFrames : NewMessage(message)
  \/ \E outcome \in Deliveries, threw \in BOOLEAN : Dispatch(outcome, threw)

SpecIngest == InitIngest /\ [][NextIngest]_vars

(***************************************************************************)
(* SubscriberService.validateSubscriptionRequest                           *)
(***************************************************************************)
\* The longest list of filters of a request to validate.
MaxFilters == 2

\* A request is a Partial<SubscriptionRequest>: each field may be absent.  The
\* ids are absent, the empty string or an id; a keyword is absent, empty,
\* blank or a word; the message types are absent or a list that may hold
\* values outside buy and sell.
ValidateKeywords == {None, Some(<<>>), Some(<<" ">>), Some(<<" ", "a">>)}

ValidateTypes ==
  {None, Some(<<>>), Some(<<"buy">>), Some(<<"buy", "sell">>),
   Some(<<"trade">>), Some(<<"trade", "buy", "x">>)}

ValidateFilters == [keyword : ValidateKeywords, messageTypes : ValidateTypes]

ValidateRequests ==
  [userId : {None, Some(""), Some("u1")},
   channelId : {None, Some(""), Some("c1")},
   keywordFilters : {None} \cup {Some(F) : F \in SeqsUpTo(ValidateFilters, MaxFilters)}]

\* String.prototype.trim over the one white space character of the alphabet.
RECURSIVE trimStart(_)
trimStart(s) ==
  IF s # <<>> /\ Head(s) = " " THEN trimStart(Tail(s)) ELSE s

RECURSIVE trimEnd(_)
trimEnd(s) ==
  IF s # <<>> /\ s[Len(s)] = " " THEN trimEnd(SubSeq(s, 1, Len(s) - 1)) ELSE s

trim(s) == trimEnd(trimStart(s))

validTypes == <<"buy", "sell">>

\* Variant: once a type is invalid the whole list of the filter is reported.
invalidTypesWholeList(messageTypes) ==
  IF \A i \in DOMAIN messageTypes : includes(validTypes, messageTypes[i])
    THEN <<>>
    ELSE messageTypes

\* filter.messageTypes.filter((type) => !validTypes.includes(type))
RECURSIVE invalidTypes(_)
invalidTypes(messageTypes) ==
  IF messageTypes = <<>> THEN <<>>
  ELSE (IF includes(validTypes, Head(messageTypes))
          THEN <<>>
          ELSE <<Head(messageTypes)>>) \o invalidTypes(Tail(messageTypes))

\* The errors the body of the forEach pushes for one filter.  A message is
\* its fixed text, the position index + 1 it names and the values it lists.
filterErrors(filter, index) ==
  (IF filter.keyword = None \/ filter.keyword[1] = <<>> \/
      trim(filter.keyword[1]) = <<>>
     THEN <<<<"keyword is required for filter", index + 1, <<>>>>>>
     ELSE <<>>) \o
  (IF filter.messageTypes = None \/ Len(filter.messageTypes[1]) = 0
     THEN <<<<"at least one message type is required for filter", index + 1, <<>>>>>>
     ELSE IF Len(invalidTypes(filter.messageTypes[1])) > 0
            THEN <<<<"invalid message types for filter", index + 1,
                     invalidTypes(filter.messageTypes[1])>>>>
            ELSE <<>>)

\* keywordFilters.forEach: the errors of the filters from position n on
\* (index n - 1).
RECURSIVE forEachFilter(_, _)
forEachFilter(keywordFilters, n) ==
  IF n > Len(keywordFilters) THEN <<>>
  ELSE filterErrors(keywordFilters[n], n - 1) \o forEachFilter(keywordFilters, n + 1)

validateSubscriptionRequest(request) ==
  LET errors ==
        (IF request.userId = None \/ request.userId[1] = ""
           THEN <<<<"userId is required", 0, <<>>>>>> ELSE <<>>) \o
        (IF request.channelId = None \/ request.channelId[1] = ""
           THEN <<<<"channelId is required", 0, <<>>>>>> ELSE <<>>) \o
        (IF request.keywordFilters = None
           THEN <<<<"keywordFilters array is required", 0, <<>>>>>>
           ELSE IF Len(request.keywordFilters[1]) = 0
                  THEN <<<<"at least one keyword filter is required", 0, <<>>>>>>
                  ELSE forEachFilter(request.keywordFilters[1], 1))
  IN  [isValid |-> Len(errors) = 0, errors |-> errors]

\* A request is validated: the method works on its argument alone.
Validate(request) ==
  /\ Idle
  /\ last' = [op |-> "validateSubscriptionRequest", request |-> request]
  /\ pre' = None
  /\ result' = validateSubscriptionRequest(request)
  /\ calls' = <<>>
  /\ UNCHANGED <<store, tasks, listener>>

InitValidate ==
  /\ store \in {FeedStore, [u \in Subscribers |-> None]}
  /\ last = NoArgs
  /\ pre = None
  /\ result = FALSE
  /\ calls = <<>>
  /\ tasks = NoTasks
  /\ Constructed

NextValidate ==
  \/ Idle /\ \E request \in ValidateRequests : Validate(request)
  \/ Reply

SpecValidate == InitValidate /\ [][NextValidate]_vars

(***************************************************************************)
(* The commands handled concurrently.  The interactionCreate handler       *)
(* starts handleCommands without awaiting it, so the handling of one       *)
(* command is suspended at each await of the store while another runs:     *)
(* the read (getSubscriber) and the write (saveSubscriberWithFilters or    *)
(* removeSubscriber) of one operation are two steps.                       *)
(***************************************************************************)
\* The records on file when the commands arrive, and the commands.
RaceRecords ==
  {None,
   Some([channelId |-> "c1",
         keywordFilters |-> <<[keyword |-> <<"a">>, messageTypes |-> <<"buy">>]>>]),
   Some([channelId |-> "c1",
         keywordFilters |-> <<[keyword |-> <<"a">>, messageTypes |-> <<"buy", "sell">>],
                              [keyword |-> <<"b">>, messageTypes |-> <<"sell">>]>>])}

RaceRequests ==
  {<<[keyword |-> <<"a">>, messageTypes |-> <<"sell">>]>>,
   <<[keyword |-> <<"b">>, messageTypes |-> <<"buy">>]>>}

RaceCalls ==
  {[NoArgs EXCEPT !.op = "subscribe", !.userId = u, !.channelId = "c1",
                  !.keywordFilters = F] : u \in Users, F \in RaceRequests} \cup
  {[NoArgs EXCEPT !.op = "unsubscribe", !.userId = u] : u \in Users} \cup
  {[NoArgs EXCEPT !.op = "partialUnsubscribe", !.userId = u,
                  !.keywords = K, !.messageTypes = T] :
     u \in Users, K \in {<<<<"a">>>>}, T \in {<<>>, <<"sell">>}}

\* The operation of a call, run on the record its read returned.
run(call, db) ==
  CASE call.op = "subscribe" ->
         subscribe(db, call.userId, call.channelId, call.keywordFilters)
    [] call.op = "unsubscribe" -> unsubscribe(db, call.userId)
    [] call.op = "partialUnsubscribe" ->
         partialUnsubscribe(db, call.userId, call.keywords, call.messageTypes)

\* The store after one of the calls an operation issues.
execute(db, storeCall) ==
  IF storeCall[1] = "saveSubscriberWithFilters"
    THEN saveSubscriberWithFilters(db, storeCall[2], storeCall[3], storeCall[4],
                                   storeCall[5])
    ELSE removeSubscriber(db, storeCall[2])

\* The store as the read of a call shows it: without the record when findOne
\* threw, for the catch of getSubscriber logs and returns null.
visible(db, userId, threw) ==
  IF threw THEN [db EXCEPT ![userId] = None] ELSE db

\* The store after a write, or the store as it was when the store call threw:
\* the catch of saveSubscriberWithFilters and removeSubscriber only logs.
written(db, storeCall, threw) ==
  IF threw THEN db ELSE execute(db, storeCall)

\* Where the handler of a command is: at which await, or returned.
pc(p) == IF tasks[p] = None THEN "none" ELSE tasks[p][1].pc

\* A command arrives and its handler awaits getSubscriber.
Call(p, call) ==
  /\ tasks[p] = None
  /\ tasks' = [tasks EXCEPT ![p] =
                 Some([call |-> call, pc |-> "getSubscriber", before |-> None,
                       existingConfig |-> None, threw |-> <<>>,
                       out |-> [result |-> FALSE, calls |-> <<>>]])]
  /\ UNCHANGED <<store, last, pre, result, calls, listener>>

\* getSubscriber returns and the handler runs up to its next await: the write,
\* if the operation has one, or else its return.
GetSubscriber(p, threw) ==
  /\ pc(p) = "getSubscriber"
  /\ LET call == tasks[p][1].call
         view == visible(store, call.userId, threw)
         out == run(call, view)
     IN  tasks' = [tasks EXCEPT ![p] =
                     Some([tasks[p][1] EXCEPT
                             !.pc = IF out.calls = <<>> THEN "returned" ELSE "write",
                             !.before = store[call.userId],
                             !.existingConfig = getSubscriber(view, call.userId),
                             !.threw = IF threw THEN <<"read">> ELSE <<>>,
                             !.out = [result |-> out.result, calls |-> out.calls]])]
  /\ UNCHANGED <<store, last, pre, result, calls, listener>>

\* The write returns and the handler runs to its return.
Write(p, threw) ==
  /\ pc(p) = "write"
  /\ store' = written(store, tasks[p][1].out.calls[1], threw)
  /\ tasks' = [tasks EXCEPT ![p] =
                 Some([tasks[p][1] EXCEPT
                         !.pc = "returned",
                         !.threw = IF threw THEN Append(@, "write") ELSE @])]
  /\ UNCHANGED <<last, pre, result, calls, listener>>

\* The commands under way have all returned; their replies are sent and their
\* handlers are gone.
Return ==
  /\ tasks # NoTasks
  /\ \A p \in Processes : pc(p) \in {"none", "returned"}
  /\ tasks' = NoTasks
  /\ UNCHANGED <<store, last, pre, result, calls, listener>>

\* Up to two commands of one user at a time, with a store that works.
InitRace ==
  /\ store \in [Users -> RaceRecords]
  /\ last = NoArgs
  /\ pre = None
  /\ result = FALSE
  /\ calls = <<>>
  /\ tasks = NoTasks
  /\ Constructed

NextRace ==
  \/ \E p \in Processes, call \in RaceCalls : Call(p, call)
  \/ \E p \in Processes : GetSubscriber(p, FALSE)
  \/ \E p \in Processes : Write(p, FALSE)
  \/ Return

SpecRace == InitRace /\ [][NextRace]_vars

(***************************************************************************)
(* The commands handled one after the other with a store whose calls may   *)
(* throw: DatabaseService catches the error, logs it and goes on.          *)
(***************************************************************************)
Handler == 1

InitFault == InitRace

NextFault ==
  \/ \E call \in RaceCalls : Call(Handler, call)
  \/ \E threw \in BOOLEAN : GetSubscriber(Handler, threw)
  \/ \E threw \in BOOLEAN : Write(Handler, threw)
  \/ Return

SpecFault == InitFault /\ [][NextFault]_vars

(***************************************************************************)
(* The engine given requests of any shape: subscribe takes the request as  *)
(* it comes, without calling validateSubscriptionRequest.                  *)
(***************************************************************************)
\* Filters with and without a keyword, with no, a known or an unknown type.
AnyFilters ==
  [keyword : {<<>>, <<" ">>, <<"a">>},
   messageTypes : {<<>>, <<"buy">>, <<"trade">>}]

AnyRequests == SeqsUpTo(AnyFilters, MaxFilters)

\* The request of a subscribe call as validateSubscriptionRequest is given it.
asRequest(userId, channelId, keywordFilters) ==
  [userId |-> Some(userId),
   channelId |-> Some(channelId),
   keywordFilters |->
     Some([i \in DOMAIN keywordFilters |->
             [keyword |-> Some(keywordFilters[i].keyword),
              messageTypes |-> Some(keywordFilters[i].messageTypes)]])]

InitAny == Init

NextAny ==
  \/ Idle /\ \E u \in Users, F \in AnyRequests : Subscribe(u, "c1", F)
  \/ Idle /\ \E u \in Users : Unsubscribe(u)
  \/ Reply

SpecAny == InitAny /\ [][NextAny]_vars

(***************************************************************************)
(* Vocabulary of the properties.                                           *)
(***************************************************************************)
\* The filters stored for the user of the last operation (empty when absent).
StoredFilters ==
  IF store[last.userId] = None THEN <<>> ELSE store[last.userId][1].keywordFilters

\* The filters that user had when the last operation started.
PreFilters == IF pre = None THEN <<>> ELSE pre[1].keywordFilters

TypeSet(types) == {types[i] : i \in DOMAIN types}

SameKeyword(k1, k2) == toLowerCase(k1) = toLowerCase(k2)

\* Positions of the filters of fs whose keyword is k up to case.
Positions(fs, k) == {i \in DOMAIN fs : SameKeyword(fs[i].keyword, k)}

UniqueKeywords(fs) ==
  \A i, j \in DOMAIN fs : i # j => ~SameKeyword(fs[i].keyword, fs[j].keyword)

After(op) == last.op = op

\* C1: in every reachable state no record's keywordFilters holds two entries
\* whose lower-cased keywords are equal.
C1_UniqueKeywordsInStore ==
  \A u \in Users : store[u] # None => UniqueKeywords(store[u][1].keywordFilters)

\* C2: subscribing with [{k, T}] twice in a row leaves exactly one filter for k,
\* and the second call changes neither the record nor the returned value:
\* right after a call with a one-filter request, the same call again is a no-op.
C2_SubscribeTwiceSame ==
  (After("subscribe") /\ Len(last.keywordFilters) = 1) =>
    LET again == subscribe(store, last.userId, last.channelId, last.keywordFilters)
    IN  /\ Cardinality(Positions(StoredFilters, last.keywordFilters[1].keyword)) = 1
        /\ again.db = store
        /\ again.result = result
        /\ Cardinality(Positions(again.result.keywordFilters,
                                 last.keywordFilters[1].keyword)) = 1

\* C2 witness: the second of two identical one-filter subscribes has run (the
\* record it read is the one the first call created from the same request).
C2_Witness ==
  /\ After("subscribe")
  /\ Len(last.keywordFilters) = 1
  /\ pre = Some([channelId |-> last.channelId, keywordFilters |-> last.keywordFilters])
  /\ store[last.userId] = pre

OtherType(t) == IF t = "buy" THEN "sell" ELSE "buy"

\* The last operation subscribed {k: [t]} onto a record that was exactly
\* {k: [the other type]}.
SecondHalfOfPair ==
  /\ After("subscribe")
  /\ Len(last.keywordFilters) = 1
  /\ Len(last.keywordFilters[1].messageTypes) = 1
  /\ pre # None
  /\ PreFilters = <<[keyword |-> last.keywordFilters[1].keyword,
                     messageTypes |->
                       <<OtherType(last.keywordFilters[1].messageTypes[1])>>]>>

\* C3: subscribing {A: [buy]} then {A: [sell]}, or {A: [sell]} then {A: [buy]},
\* ends with a single filter for A whose message types are, as a set, {buy, sell}.
C3_UnionCommutes ==
  SecondHalfOfPair =>
    /\ Len(StoredFilters) = 1
    /\ StoredFilters[1].keyword = last.keywordFilters[1].keyword
    /\ TypeSet(StoredFilters[1].messageTypes) = {"buy", "sell"}

\* C3 witness: the reverse order (sell first, then buy) has been run.
C3_Witness ==
  /\ SecondHalfOfPair
  /\ last.keywordFilters[1].messageTypes = <<"buy">>

KeywordsOf(fs) == [i \in DOMAIN fs |-> fs[i].keyword]

\* Positions of s that hold the first occurrence of a keyword, up to case.
FirstSeen(s) ==
  {i \in DOMAIN s : \A j \in 1..(i - 1) : ~SameKeyword(s[j], s[i])}

\* The n-th smallest element of a set of positions.
Nth(P, n) == CHOOSE i \in P : Cardinality({j \in P : j <= i}) = n

\* s restricted to the first occurrence of each keyword, in order.
FirstSeenOrder(s) == [n \in 1..Cardinality(FirstSeen(s)) |-> s[Nth(FirstSeen(s), n)]]

\* C4: when a record exists, subscribe lists the existing keywords first (original
\* order and casing), then the requested keywords not yet present up to case, in
\* request order; a requested keyword equal to an existing one adds no entry.
C4_FirstSeenOrder ==
  (After("subscribe") /\ pre # None) =>
    LET E == KeywordsOf(PreFilters)
        R == KeywordsOf(last.keywordFilters)
        K == KeywordsOf(StoredFilters)
    IN  /\ K = FirstSeenOrder(E \o R)
        /\ UniqueKeywords(PreFilters) => SubSeq(K, 1, Len(E)) = E
        /\ \A i \in DOMAIN R :
             (\E j \in DOMAIN E : SameKeyword(E[j], R[i])) =>
               \A n \in (Cardinality(FirstSeen(E)) + 1)..Len(K) :
                 ~SameKeyword(K[n], R[i])

\* C4 witness: a merge onto a non-empty record whose request names a keyword that
\* exists in another casing and a new keyword.
C4_Witness ==
  /\ After("subscribe")
  /\ pre # None
  /\ Len(PreFilters) > 0
  /\ \E i \in DOMAIN last.keywordFilters :
       \E j \in DOMAIN PreFilters :
         /\ SameKeyword(PreFilters[j].keyword, last.keywordFilters[i].keyword)
         /\ PreFilters[j].keyword # last.keywordFilters[i].keyword
  /\ \E i \in DOMAIN last.keywordFilters :
       Positions(PreFilters, last.keywordFilters[i].keyword) = {}

\* All message types listed for k (up to case) in the filters fs.
TypesOf(fs, k) == UNION {TypeSet(fs[i].messageTypes) : i \in Positions(fs, k)}

\* The union half of C5: every keyword of the record or the request ends with
\* the union of all its existing and requested types.
TypesAreUnion ==
  \A f \in {PreFilters[i] : i \in DOMAIN PreFilters} \cup
           {last.keywordFilters[i] : i \in DOMAIN last.keywordFilters} :
    /\ Positions(StoredFilters, f.keyword) # {}
    /\ \A n \in Positions(StoredFilters, f.keyword) :
         TypeSet(StoredFilters[n].messageTypes) =
           TypesOf(PreFilters, f.keyword) \cup TypesOf(last.keywordFilters, f.keyword)

\* C5: when a record exists subscribe only adds: each keyword's resulting type
\* set is the union of its existing and requested types, and subscribing with an
\* empty filter list leaves the stored filters unchanged.
C5_SubscribeOnlyAdds ==
  (After("subscribe") /\ pre # None) =>
    /\ TypesAreUnion
    /\ last.keywordFilters = <<>> => StoredFilters = PreFilters

\* C6: after subscribe(u, c, F) the stored record of u has channelId c, whether
\* or not a record existed before.
C6_ChannelLastWriterWins ==
  After("subscribe") =>
    /\ store[last.userId] # None
    /\ store[last.userId][1].channelId = last.channelId
    /\ result.channelId = last.channelId

\* C6 witness: a subscribe onto a record that had another channel and filters.
C6_Witness ==
  /\ After("subscribe")
  /\ pre # None
  /\ pre[1].channelId # last.channelId
  /\ Len(PreFilters) > 0

\* C7: for a user with no prior record, subscribe(u, c, F) then getSubscription(u)
\* returns exactly {channelId: c, keywordFilters: F}, and the write is tagged as
\* not a merge.
C7_RoundTrip ==
  (After("subscribe") /\ pre = None) =>
    /\ getSubscription(store, last.userId) =
         Some([channelId |-> last.channelId, keywordFilters |-> last.keywordFilters])
    /\ result = [channelId |-> last.channelId, keywordFilters |-> last.keywordFilters]
    /\ calls = <<SaveCall(last.userId, last.channelId, last.keywordFilters, FALSE)>>

\* C7 witness: a first subscribe with two filters has run.
C7_Witness ==
  /\ After("subscribe")
  /\ pre = None
  /\ Len(last.keywordFilters) = 2

\* C8: unsubscribe(u) returns true exactly when a record existed, afterwards u
\* has no record, and when none existed no delete is issued.
C8_Unsubscribe ==
  After("unsubscribe") =>
    /\ result = (pre # None)
    /\ store[last.userId] = None
    /\ ~isSubscribed(store, last.userId)
    /\ getSubscription(store, last.userId) = None
    /\ pre = None => calls = <<>>
    /\ pre # None => calls = <<RemoveCall(last.userId)>>

\* C8 witness: an unsubscribe of an existing record has run.
C8_Witness == After("unsubscribe") /\ pre # None /\ Len(PreFilters) > 0

\* C9: partialUnsubscribe(u, [], []) reports failure and changes nothing: the
\* store is as before, no save or delete is issued, and for an existing record
\* the result carries the original filters and their count.
C9_NothingSpecified ==
  (After("partialUnsubscribe") /\ last.keywords = <<>> /\ last.messageTypes = <<>>) =>
    /\ result.success = FALSE
    /\ calls = <<>>
    /\ store[last.userId] = pre
    /\ result.removedItems = <<>>
    /\ pre # None =>
         /\ result.remainingFilters = PreFilters
         /\ result.remainingCount = Len(PreFilters)

\* C9 witness: the call has run on a record with filters.
C9_Witness ==
  /\ After("partialUnsubscribe")
  /\ last.keywords = <<>>
  /\ last.messageTypes = <<>>
  /\ Len(PreFilters) > 0

\* Whether the request of the last partialUnsubscribe targets the filter f.
Targeted(f) ==
  last.keywords = <<>> \/
    \E i \in DOMAIN last.keywords : SameKeyword(last.keywords[i], f.keyword)

\* Positions of the filters the request empties by subtracting its types.
Emptied ==
  {i \in DOMAIN PreFilters :
     /\ Targeted(PreFilters[i])
     /\ last.messageTypes # <<>>
     /\ TypeSet(PreFilters[i].messageTypes) \subseteq TypeSet(last.messageTypes)}

\* Positions of the filters the request removes.
Removed ==
  Emptied \cup
  {i \in DOMAIN PreFilters :
     Targeted(PreFilters[i]) /\ last.keywords # <<>> /\ last.messageTypes = <<>>}

IsSave(call) == call[1] = "saveSubscriberWithFilters"

\* C10: a filter emptied by the subtraction is removed (never stored with an
\* empty type set), and when no filter remains the record is deleted, not saved
\* with an empty list, with success = true and remainingCount = 0.
C10_EmptiedFilterRemoved ==
  (After("partialUnsubscribe") /\ PreFilters # <<>> /\
     (last.keywords # <<>> \/ last.messageTypes # <<>>)) =>
    /\ \A n \in DOMAIN StoredFilters :
         StoredFilters[n].messageTypes = <<>> =>
           \E i \in DOMAIN PreFilters : PreFilters[i] = StoredFilters[n]
    /\ Len(StoredFilters) = Len(PreFilters) - Cardinality(Removed)
    /\ Emptied # {} => result.success
    /\ Removed = DOMAIN PreFilters =>
         /\ store[last.userId] = None
         /\ calls = <<RemoveCall(last.userId)>>
         /\ result.success
         /\ result.remainingCount = 0
         /\ result.remainingFilters = <<>>
    /\ \A n \in DOMAIN calls : IsSave(calls[n]) => calls[n][4] # <<>>
    /\ result.success => store[last.userId] = None \/ StoredFilters # <<>>

\* C10 witness: a request by type emptied one filter of several and the rest
\* stayed stored.
C10_Witness ==
  /\ After("partialUnsubscribe")
  /\ Emptied # {}
  /\ Emptied # DOMAIN PreFilters
  /\ store[last.userId] # None

\* C10 second case reached: the last filter was emptied and the record deleted.
C10_RecordDeleted ==
  /\ After("partialUnsubscribe")
  /\ Emptied = DOMAIN PreFilters
  /\ PreFilters # <<>>
  /\ store[last.userId] = None

\* The filters of the record read in positions P, in their original order.
RECURSIVE PreFiltersAt(_, _)
PreFiltersAt(P, n) ==
  IF n > Len(PreFilters) THEN <<>>
  ELSE (IF n \in P THEN <<PreFilters[n]>> ELSE <<>>) \o PreFiltersAt(P, n + 1)

\* C11: a request with keywords and no types removes exactly the filters whose
\* keyword equals, up to letter case, one of the requested keywords, whatever
\* their types; every other filter stays as it was, in the original order.
C11_RemoveByKeyword ==
  (After("partialUnsubscribe") /\ last.keywords # <<>> /\ last.messageTypes = <<>>) =>
    /\ StoredFilters =
         PreFiltersAt({i \in DOMAIN PreFilters : ~Targeted(PreFilters[i])}, 1)
    /\ result.success => result.remainingFilters = StoredFilters
    /\ result.success <=> \E i \in DOMAIN PreFilters : Targeted(PreFilters[i])

\* C11 witness: a filter was removed by a keyword written in another letter
\* case than the stored one, and another filter stayed.
C11_Witness ==
  /\ After("partialUnsubscribe")
  /\ last.keywords # <<>>
  /\ last.messageTypes = <<>>
  /\ \E i \in DOMAIN PreFilters :
       /\ Targeted(PreFilters[i])
       /\ \A k \in DOMAIN last.keywords : last.keywords[k] # PreFilters[i].keyword
       /\ Len(PreFilters[i].messageTypes) = 2
  /\ StoredFilters # <<>>
  /\ Len(StoredFilters) < Len(PreFilters)

\* The types of a filter that are not among the requested ones, in order.
Minus(types, requested) ==
  SelectSeq(types, LAMBDA t : t \notin TypeSet(requested))

\* The filters of the record read from position n on, each targeted one with
\* the requested types taken away and left out when no type remains.
RECURSIVE ReducedFrom(_)
ReducedFrom(n) ==
  IF n > Len(PreFilters) THEN <<>>
  ELSE LET f == PreFilters[n]
           types == IF Targeted(f) THEN Minus(f.messageTypes, last.messageTypes)
                    ELSE f.messageTypes
       IN  (IF types = <<>> THEN <<>>
            ELSE <<[keyword |-> f.keyword, messageTypes |-> types]>>)
           \o ReducedFrom(n + 1)

\* C12: a request with types subtracts them from exactly the targeted filters
\* (all of them without keywords, else those whose keyword matches a requested
\* one up to letter case): a targeted filter keeps its old types minus the
\* requested ones, every other filter is unchanged.
C12_SubtractTypes ==
  (After("partialUnsubscribe") /\ last.messageTypes # <<>>) =>
    /\ StoredFilters = ReducedFrom(1)
    /\ result.success => result.remainingFilters = StoredFilters
    /\ \A n \in DOMAIN StoredFilters :
         \E i \in DOMAIN PreFilters :
           /\ PreFilters[i].keyword = StoredFilters[n].keyword
           /\ TypeSet(StoredFilters[n].messageTypes) =
                IF Targeted(PreFilters[i])
                  THEN TypeSet(PreFilters[i].messageTypes) \ TypeSet(last.messageTypes)
                  ELSE TypeSet(PreFilters[i].messageTypes)

\* C12 witness: with a keyword and a type requested, the targeted filter lost
\* that type and kept its other one, while a filter with another keyword that
\* holds the requested type was left as it was.
C12_Witness ==
  /\ After("partialUnsubscribe")
  /\ last.keywords # <<>>
  /\ Len(last.messageTypes) = 1
  /\ Len(PreFilters) = 2
  /\ Len(StoredFilters) = 2
  /\ \E i, j \in DOMAIN PreFilters :
       /\ Targeted(PreFilters[i])
       /\ Len(PreFilters[i].messageTypes) = 2
       /\ StoredFilters[i].messageTypes = Minus(PreFilters[i].messageTypes, last.messageTypes)
       /\ Len(StoredFilters[i].messageTypes) = 1
       /\ ~Targeted(PreFilters[j])
       /\ last.messageTypes[1] \in TypeSet(PreFilters[j].messageTypes)
       /\ StoredFilters[j] = PreFilters[j]

\* The request of the last partialUnsubscribe takes nothing from the record
\* read: no filter matches its keywords, or no targeted filter holds one of its
\* types.
NothingChanges ==
  /\ (last.keywords # <<>> \/ last.messageTypes # <<>>)
  /\ \A i \in DOMAIN PreFilters :
       Targeted(PreFilters[i]) =>
         /\ last.messageTypes # <<>>
         /\ TypeSet(PreFilters[i].messageTypes) \cap TypeSet(last.messageTypes) = {}

\* C13: a partialUnsubscribe that changes nothing reports success = false,
\* returns the original filters and their number, and neither saves nor deletes.
C13_NothingChanged ==
  (After("partialUnsubscribe") /\ pre # None /\ NothingChanges) =>
    /\ result.success = FALSE
    /\ result.remainingFilters = PreFilters
    /\ result.remainingCount = Len(PreFilters)
    /\ result.removedItems = <<>>
    /\ calls = <<>>
    /\ store[last.userId] = pre

\* C13 witness: a keyword matched a stored filter but the requested type was
\* not among that filter's types, so the subtraction removed nothing.
C13_Witness ==
  /\ After("partialUnsubscribe")
  /\ NothingChanges
  /\ last.keywords # <<>>
  /\ \E i \in DOMAIN PreFilters : Targeted(PreFilters[i])
  /\ result.success = FALSE
  /\ result.remainingCount = 2

\* C13 second case reached: no stored filter matched the requested keywords.
C13_NoFilterMatched ==
  /\ After("partialUnsubscribe")
  /\ NothingChanges
  /\ PreFilters # <<>>
  /\ \A i \in DOMAIN PreFilters : ~Targeted(PreFilters[i])
  /\ result.success = FALSE

\* C14: when a partialUnsubscribe succeeds and a filter remains, the stored
\* record is exactly the previous destination with the remaining filters (a
\* full replace, not a merge with the old filters), and remainingCount is the
\* number of filters now stored.
C14_ReducedRecordReplaces ==
  (After("partialUnsubscribe") /\ result.success /\ result.remainingFilters # <<>>) =>
    /\ pre # None
    /\ store[last.userId] =
         Some([channelId |-> pre[1].channelId,
               keywordFilters |-> result.remainingFilters])
    /\ result.remainingCount = Len(StoredFilters)
    /\ calls = <<SaveCall(last.userId, pre[1].channelId,
                          result.remainingFilters, FALSE)>>

\* C14 witness: a successful call left one filter of two stored, under the
\* destination the record had.
C14_Witness ==
  /\ After("partialUnsubscribe")
  /\ result.success
  /\ Len(PreFilters) = 2
  /\ result.remainingCount = 1
  /\ Len(StoredFilters) = 1
  /\ store[last.userId][1].channelId = "c2"

\* C15: partialUnsubscribe for a user without a record reports success = false
\* with remainingCount = 0 and no removed item, whatever the keywords and the
\* types, and creates no record.
C15_NoRecord ==
  (After("partialUnsubscribe") /\ pre = None) =>
    /\ result.success = FALSE
    /\ result.remainingCount = 0
    /\ result.removedItems = <<>>
    /\ result.remainingFilters = <<>>
    /\ store[last.userId] = None
    /\ calls = <<>>

\* C15 witness: a user without a record asked to remove a keyword and a type.
C15_Witness ==
  /\ After("partialUnsubscribe")
  /\ pre = None
  /\ last.keywords # <<>>
  /\ last.messageTypes # <<>>
  /\ result.success = FALSE
  /\ store[last.userId] = None

(***************************************************************************)
(* Vocabulary of the properties of the dispatcher.                         *)
(***************************************************************************)
\* A broadcast has completed since the last frame; Event is what it carried.
Broadcast == fanout.payload # None

Event == fanout.payload[1]

FiltersOf(u) == IF store[u] = None THEN <<>> ELSE store[u][1].keywordFilters

\* The keyword occurs in the content, letter case apart.
OccursIn(keyword, content) ==
  \E i \in 0..Len(content), j \in 0..Len(content) :
    /\ i <= j
    /\ SubSeq(toLowerCase(content), i + 1, j) = toLowerCase(keyword)

\* The filters of u, by position, that a given event matches.
Matching(u, event) ==
  {n \in DOMAIN FiltersOf(u) :
     /\ event.message_type \in TypeSet(FiltersOf(u)[n].messageTypes)
     /\ OccursIn(FiltersOf(u)[n].keyword, event.content)}

\* The entries of the channel groups, and of the messages sent, that name u.
GroupEntries(u) ==
  {<<g, k>> \in (DOMAIN fanout.groups) \X (1..Cardinality(Subscribers)) :
     /\ k \in DOMAIN fanout.groups[g].users
     /\ fanout.groups[g].users[k].userId = u}

Lines(u) ==
  {<<m, k>> \in (DOMAIN fanout.sends) \X (1..Cardinality(Subscribers)) :
     /\ k \in DOMAIN fanout.sends[m].content
     /\ fanout.sends[m].content[k][1] = u}

\* C16: a user is notified of an event exactly when some filter of the user's
\* record holds the event's type and a keyword that occurs in the content,
\* letter case apart; the reasons given name only such filters, so a filter
\* with the right keyword and the wrong type never matches.
C16_MatchIsTypeAndKeyword ==
  Broadcast =>
    \A u \in Subscribers :
      /\ GroupEntries(u) # {} <=> Matching(u, Event) # {}
      /\ \A e \in GroupEntries(u) :
           LET entry == fanout.groups[e[1]]
           IN  /\ entry.channelId = store[u][1].channelId
               /\ {entry.users[e[2]].reason[r][1] :
                     r \in DOMAIN entry.users[e[2]].reason} =
                   {FiltersOf(u)[n].keyword : n \in Matching(u, Event)}
               /\ fanout.outcome[entry.channelId] = "sent" <=> Lines(u) # {}
      /\ GroupEntries(u) = {} => Lines(u) = {}

\* C16 witness: an event was sent to a user through a keyword stored in another
\* letter case than the content has, while another user whose keyword occurs in
\* the content, under the other type only, was not notified.
C16_Witness ==
  /\ Broadcast
  /\ \E u, v \in Subscribers :
       /\ Lines(u) # {}
       /\ \E n \in Matching(u, Event) :
            ~includesString(Event.content, FiltersOf(u)[n].keyword)
       /\ GroupEntries(v) = {}
       /\ \E n \in DOMAIN FiltersOf(v) :
            /\ OccursIn(FiltersOf(v)[n].keyword, Event.content)
            /\ Event.message_type \notin TypeSet(FiltersOf(v)[n].messageTypes)

\* The record of u is the one a first subscribe with an empty keyword list
\* stores: subscribe found no record and saved the empty list under c.
SubscribedToEverything(u) ==
  \E c \in Channels :
    store[u] = subscribe([v \in Subscribers |-> None], u, c, <<>>).db[u]

\* C17: a user who subscribed with no prior record and an empty keyword list
\* receives every event, whatever its type and content: each broadcast
\* places the user in the group of the user's channel and the message sent to
\* that channel names the user.
C17_EmptyListReceivesAll ==
  Broadcast =>
    \A u \in Subscribers :
      SubscribedToEverything(u) =>
        /\ GroupEntries(u) # {}
        /\ fanout.outcome[store[u][1].channelId] = "sent" => Lines(u) # {}

\* The users on file for channel c whom a given event matches.
MatchingUsers(c, event) ==
  {u \in Subscribers :
     store[u] # None /\ store[u][1].channelId = c /\ Matching(u, event) # {}}

\* The messages of the last broadcast sent to channel c, by position.
SentTo(c) == {m \in DOMAIN fanout.sends : fanout.sends[m].channelId = c}

\* C18: for each dispatched event, a channel with at least one matching user
\* receives exactly one message (none when its delivery fails) and a channel
\* without matching user receives none; the message names each matching user
\* of the channel exactly once, nobody else, and the user's line lists every
\* filter of the user that matched.
C18_OneMessagePerChannel ==
  Broadcast =>
    \A c \in Channels :
      /\ MatchingUsers(c, Event) = {} => SentTo(c) = {}
      /\ Cardinality({g \in DOMAIN fanout.groups : fanout.groups[g].channelId = c})
           = IF MatchingUsers(c, Event) = {} THEN 0 ELSE 1
      /\ MatchingUsers(c, Event) # {} =>
           Cardinality(SentTo(c)) = IF fanout.outcome[c] = "sent" THEN 1 ELSE 0
      /\ \A m \in SentTo(c) :
           LET content == fanout.sends[m].content
           IN  /\ \A u \in MatchingUsers(c, Event) :
                    Cardinality({k \in DOMAIN content : content[k][1] = u}) = 1
               /\ \A k \in DOMAIN content :
                    /\ content[k][1] \in MatchingUsers(c, Event)
                    /\ Len(content[k][2]) = Cardinality(Matching(content[k][1], Event))
                    /\ \A n \in Matching(content[k][1], Event) :
                         \E r \in DOMAIN content[k][2] :
                           content[k][2][r] =
                             <<FiltersOf(content[k][1])[n].keyword, typeText(Event)>>

\* C18 witness: one message went to a channel with two matching users, one
\* line each, a line listing two matched filters, while a channel whose
\* subscriber has filters that do not match received nothing.
C18_Witness ==
  /\ Broadcast
  /\ Len(fanout.sends) = 1
  /\ Len(fanout.sends[1].content) = 2
  /\ Len(fanout.sends[1].content[1][2]) = 2
  /\ \E u \in Subscribers :
       /\ store[u] # None
       /\ FiltersOf(u) # <<>>
       /\ store[u][1].channelId # fanout.sends[1].channelId
       /\ fanout.outcome[store[u][1].channelId] = "sent"
       /\ SentTo(store[u][1].channelId) = {}

\* The channels with a matching user whose delivery threw.
FailedChannels ==
  {c \in Channels :
     /\ MatchingUsers(c, Event) # {}
     /\ fanout.outcome[c] \in {"fetchThrows", "sendThrows"}}

\* C19: a delivery that fails is isolated to its channel: every other channel
\* with a matching user still gets its message, the failure is logged for the
\* failed channel only, no error leaves the dispatcher, and the connection to
\* the feed is as it was (open, its timer running, no reconnect under way).
C19_FailureIsolated ==
  Broadcast =>
    /\ fanout.escaped = FALSE
    /\ \A c \in Channels :
         (MatchingUsers(c, Event) # {} /\ fanout.outcome[c] = "sent") =>
           Cardinality(SentTo(c)) = 1
    /\ {fanout.errors[e].channelId : e \in DOMAIN fanout.errors} = FailedChannels
    /\ Len(fanout.errors) = Cardinality(FailedChannels)
    /\ ws = "open"
    /\ pingInterval = 1
    /\ reconnectAttempts = 0
    /\ reconnectTimeout = FALSE
  /\ destroyed = FALSE
  /\ delivered = {}

\* C19 witness: of two channels with matching users, the delivery to the first
\* threw and the message to the second was sent all the same.
C19_Witness ==
  /\ Broadcast
  /\ Len(fanout.groups) = 2
  /\ fanout.outcome[fanout.groups[1].channelId] = "fetchThrows"
  /\ Len(fanout.errors) = 1
  /\ fanout.errors[1].channelId = fanout.groups[1].channelId
  /\ Len(fanout.sends) = 1
  /\ fanout.sends[1].channelId = fanout.groups[2].channelId
  /\ ws = "open"

\* C19 second case reached: channel.send threw for one channel and the other
\* channel received its message.
C19_SendThrew ==
  /\ Broadcast
  /\ Len(fanout.groups) = 2
  /\ fanout.outcome[fanout.groups[1].channelId] = "sendThrows"
  /\ Len(fanout.sends) = 1
  /\ fanout.sends[1].channelId = fanout.groups[2].channelId

\* The frame handled last was a new_message with a payload.
EventFrame ==
  /\ frame # None
  /\ frame[1].type = "new_message"
  /\ frame[1].payload # None

\* C20: a new_message frame delivered twice in succession, with the same
\* (player_id, content, message_type, channel), is dispatched once: after the
\* frame has been handled its id is on record, at most the broadcast of its
\* own payload is under way, and handling the same frame again records
\* nothing and starts no broadcast.
C20_SecondFrameDropped ==
  EventFrame =>
    LET again == handleNewMessage(processedMessageIds, frame[1])
    IN  /\ includes(processedMessageIds, generateMessageId(frame[1].payload))
        /\ Cardinality({i \in DOMAIN processedMessageIds :
                          processedMessageIds[i] = generateMessageId(frame[1].payload)}) = 1
        /\ broadcasting # None => broadcasting = frame[1].payload
        /\ again.broadcast = None
        /\ again.processedMessageIds = processedMessageIds

\* C20 witness: the frame handled last repeated an event handled before: it
\* started no broadcast, while other events had been dispatched in between.
C20_Witness ==
  /\ EventFrame
  /\ broadcasting = None
  /\ ~Broadcast
  /\ Len(processedMessageIds) > 1
  /\ includes(processedMessageIds, generateMessageId(frame[1].payload))

\* C20 first half reached: the first delivery of the event started its
\* broadcast.
C20_FirstDispatched ==
  /\ EventFrame
  /\ broadcasting = frame[1].payload
  /\ processedMessageIds[Len(processedMessageIds)] = generateMessageId(frame[1].payload)

(***************************************************************************)
(* Properties of the set of processed ids.                                 *)
(***************************************************************************)
\* The id of the frame handled by the step, and the ids with it appended.
InsertedId == generateMessageId(frame'[1].payload)

\* C21: the set of processed ids is bounded: it never holds more than 1000
\* ids once a frame has been handled, and an insertion that takes it above
\* 1000 cuts it down to exactly the 500 ids inserted last, in insertion order,
\* the id just inserted among them; any other insertion appends the id.
C21_BoundedEviction ==
  /\ [](Len(processedMessageIds) <= 1000)
  /\ [][processedMessageIds' # processedMessageIds =>
          LET grown == Append(processedMessageIds, InsertedId)
          IN  IF Len(grown) > 1000
                THEN /\ Len(processedMessageIds') = 500
                     /\ processedMessageIds' = SubSeq(grown, Len(grown) - 499, Len(grown))
                     /\ processedMessageIds'[500] = InsertedId
                ELSE processedMessageIds' = grown]_vars

\* C21 witness: the 1001st id was inserted and the set was cut to the 500 ids
\* inserted last, from the 502nd event to the one just handled.
C21_Witness ==
  /\ EventFrame
  /\ Len(processedMessageIds) = 500
  /\ processedMessageIds[500] = generateMessageId(frame[1].payload)
  /\ processedMessageIds[1] = generateMessageId(Some(EventOf(502)))
  /\ frame[1].payload = Some(EventOf(1001))

\* C21 after the cut: an evicted id was handled as new and appended.
C21_EvictedHandledAgain ==
  /\ EventFrame
  /\ Len(processedMessageIds) = 501
  /\ frame[1].payload = Some(EventOf(1))
  /\ broadcasting = frame[1].payload

(***************************************************************************)
(* Properties of the connection to the feed.                               *)
(***************************************************************************)
\* min(5000 * 2^attempt, 30000), written out.
ExpectedDelay(attempt) ==
  CASE attempt = 0 -> 5000
    [] attempt = 1 -> 10000
    [] attempt = 2 -> 20000
    [] OTHER -> 30000

\* The step is a close that schedules a reconnect.
Schedules == ~reconnectTimeout /\ reconnectTimeout' /\ ws' = "closed"

\* C22: the delay scheduled at a close is min(5000 * 2^attempt, 30000) for the
\* current attempt counter (5000, 10000, 20000, then 30000); over consecutive
\* failed reconnects it never decreases, and it never exceeds 30000.
C22_ReconnectDelay ==
  /\ [](/\ \A n \in 0..maxReconnectAttempts :
             calculateReconnectDelay(n) = ExpectedDelay(n)
        /\ reconnectTimeout => delay = ExpectedDelay(reconnectAttempts)
        /\ delay <= 30000)
  /\ [][Schedules =>
          /\ delay' = ExpectedDelay(reconnectAttempts)
          /\ reconnectAttempts > 0 => delay' >= delay]_vars

\* C22 witness: after five failed reconnects the sixth is scheduled with the
\* capped delay.
C22_Witness ==
  /\ reconnectTimeout
  /\ reconnectAttempts = 5
  /\ delay = 30000
  /\ ws = "closed"

\* C22 below the cap: the third reconnect is scheduled after 20000 ms.
C22_Doubled ==
  /\ reconnectTimeout
  /\ reconnectAttempts = 2
  /\ delay = 20000

\* The step handles the close of the socket.
Closes == ws # "closed" /\ ws' = "closed"

\* The listener has given up: the socket is closed after the last attempt and
\* no reconnect is pending.
GaveUp == ws = "closed" /\ ~reconnectTimeout /\ reconnectAttempts = 10

\* C23: a close schedules a reconnect exactly when the attempt counter is
\* below 10; after 10 reconnect attempts in a row that did not reach open the
\* close schedules nothing, and from then on no socket is ever created again.
C23_GivesUp ==
  /\ [](reconnectAttempts <= 10)
  /\ [][Closes => (reconnectTimeout' <=> reconnectAttempts < 10)]_vars
  /\ [][GaveUp => (GaveUp' /\ ws' = "closed")]_vars

\* C23 witness: the tenth reconnect failed, nothing is scheduled.
C23_Witness ==
  /\ GaveUp
  /\ delay = 30000
  /\ subscribed = 0

\* C24: every successful open resets the attempt counter to zero: the first
\* reconnect scheduled after it uses the base delay of 5000 ms, and the whole
\* budget of 10 attempts is available again, however many attempts preceded.
C24_OpenResets ==
  /\ [](ws = "open" => reconnectAttempts = 0)
  /\ [][(ws = "open" /\ Closes) =>
          /\ reconnectTimeout'
          /\ delay' = 5000
          /\ reconnectAttempts' = 0]_vars

\* C24 witness: the socket opened after reconnects that had failed up to
\* the capped delay, and the counter is back at zero.
C24_Witness ==
  /\ ws = "open"
  /\ delay = 30000
  /\ reconnectAttempts = 0

\* C24 then: the close after that open scheduled the reconnect after 5000 ms,
\* the frames handled on the open socket still on record.
C24_BaseDelayAgain ==
  /\ ws = "closed"
  /\ reconnectTimeout
  /\ delay = 5000
  /\ reconnectAttempts = 0
  /\ subscribed > 0

\* C25: there is a single ping timer and it is cleared on close: whatever
\* frames arrive, at most one ping timer is running at any time, and once the
\* close of the socket has been handled none is.
C25_SinglePingTimer ==
  /\ pingInterval <= 1
  /\ ws = "closed" => pingInterval = 0

\* C26: the subscribe control frame is sent once per connection: whatever
\* frames arrive on an open socket, repeated connection_info frames among
\* them, at most one subscribe_new frame is sent on that socket.
C26_SubscribeOnce == subscribed <= 1

\* C27: ping frames are sent only while the socket is open: a ping timer that
\* fires while the current socket is connecting, closing or closed sends
\* nothing, every frame handed to ws.send found the socket open, and a ping
\* timer is started only by the handling of a subscription_confirmed frame.
C27_PingOnlyWhenOpen ==
  /\ [](wire.type # "none" => wire.readyState = "open")
  /\ [][(PingTimer /\ ws # "open") => wire' = wire]_vars
  /\ [][(PingTimer /\ ws = "open") => wire' = [type |-> "ping", readyState |-> "open"]]_vars
  /\ [][pingInterval' > pingInterval =>
          (frame' # None /\ frame'[1].type = "subscription_confirmed")]_vars

\* C27 witness: a ping timer is running while the current socket is still
\* connecting, the last frame on the wire being one sent on the socket before.
C27_Witness ==
  /\ pingInterval > 0
  /\ ws = "connecting"
  /\ wire.readyState = "open"

\* C27 on the open socket: a ping was sent.
C27_PingSent ==
  /\ ws = "open"
  /\ wire = [type |-> "ping", readyState |-> "open"]

\* C27 while closing: a ping timer is running after disconnect.
C27_TimerWhileClosing ==
  /\ ws = "closing"
  /\ pingInterval > 0

\* The frames without effect: text that does not decode, a pong, a type the
\* listener does not know, a new_message that carries no payload.
Ignored ==
  {data \in Data :
     \/ data[1] = "garbage"
     \/ /\ data[1] = "json"
        /\ \/ data[2].type \notin {"connection_info", "subscription_confirmed",
                                    "new_message"}
           \/ data[2].type = "new_message" /\ data[2].payload = None}

\* C28: a malformed frame, a pong, a frame of unknown type or a new_message
\* without payload changes nothing of the listener: the socket keeps its
\* state, the attempt counter, the timers and the set of processed ids are
\* untouched, nothing is put on the wire and no broadcast is started.
C28_IgnoredFramesChangeNothing ==
  [][\A data \in Ignored :
       OnMessage(data) =>
         /\ UNCHANGED <<connection, processedMessageIds, broadcasting, fanout>>
         /\ UNCHANGED engine]_vars

\* C28 witness: a malformed frame was handled on the open socket of a
\* listener that has a ping timer running, an id on record and a broadcast
\* in flight.
C28_Witness ==
  /\ ws = "open"
  /\ frame = Some(Unparsed)
  /\ pingInterval = 1
  /\ processedMessageIds # <<>>
  /\ broadcasting # <<>>

\* C28 for the unknown type: the frame was handled on the open socket.
C28_UnknownHandled ==
  /\ ws = "open"
  /\ frame = Some([type |-> "bye", payload |-> None])
  /\ pingInterval = 0
  /\ subscribed = 1

\* C28 for new_message without payload.
C28_NoPayloadHandled ==
  /\ ws = "open"
  /\ frame = Some([type |-> "new_message", payload |-> None])
  /\ processedMessageIds = <<>>

\* The new_message frame that delivers an event, and what is on record of it.
Delivery(p) == <<"json", [type |-> "new_message", payload |-> Some(p)]>>
OnRecord(p) == includes(processedMessageIds, generateMessageId(Some(p)))
IsPrefix(s, t) == Len(s) <= Len(t) /\ SubSeq(t, 1, Len(s)) = s

\* C29: an event whose id is on record is never dispatched again, whatever
\* the state of the connection and of the first dispatch: the frame that
\* delivers it again starts no broadcast; an id is on record from the very
\* step that starts the broadcast of its event, so no event is in flight
\* twice; and no step of the connection, close and reconnect included, takes
\* an id off the record.
C29_RedeliveryNeverDispatched ==
  /\ [][\A p \in FeedPayloads :
          (OnRecord(p) /\ OnMessage(Delivery(p))) =>
             UNCHANGED <<broadcasting, processedMessageIds, fanout>>]_vars
  /\ [][\A p \in FeedPayloads :
          (~OnRecord(p) /\ OnMessage(Delivery(p))) =>
             /\ broadcasting' = Append(broadcasting, p)
             /\ OnRecord(p)']_vars
  /\ [](\A i \in DOMAIN broadcasting :
          /\ OnRecord(broadcasting[i])
          /\ \A j \in DOMAIN broadcasting :
               broadcasting[i] = broadcasting[j] => i = j)
  /\ [][IsPrefix(processedMessageIds, processedMessageIds')]_vars

\* C29 witness: an event was delivered again after another event had been
\* handled and while the broadcasts of both were still in flight, and it is
\* in flight once.
C29_Witness ==
  \E p, q \in FeedPayloads :
    /\ p # q
    /\ processedMessageIds = <<generateMessageId(Some(p)), generateMessageId(Some(q))>>
    /\ frame = Some([type |-> "new_message", payload |-> Some(p)])
    /\ broadcasting = <<p, q>>

\* C29 across a reconnect: the ids are on record while the socket that
\* replaces the closed one is connecting.
C29_KeptWhileReconnecting ==
  /\ ws = "connecting"
  /\ delay > 0
  /\ Len(processedMessageIds) = 2

\* C29 after a reconnect: on the socket opened by a reconnect the frame last
\* handled delivers the event recorded first, after its broadcast completed.
C29_DroppedAfterReconnect ==
  \E p, q \in FeedPayloads :
    /\ p # q
    /\ ws = "open"
    /\ delay > 0
    /\ processedMessageIds = <<generateMessageId(Some(p)), generateMessageId(Some(q))>>
    /\ frame = Some([type |-> "new_message", payload |-> Some(p)])
    /\ broadcasting = <<>>

(***************************************************************************)
(* Properties of the validation of a request.                              *)
(***************************************************************************)
Validated == last.op = "validateSubscriptionRequest"

\* What a request must have, in the words of its fields.
HasWord(keyword) ==
  /\ keyword # None
  /\ \E i \in DOMAIN keyword[1] : keyword[1][i] # " "
Given(id) == id # None /\ id[1] # ""
GivenFilters(request) ==
  IF request.keywordFilters = None THEN <<>> ELSE request.keywordFilters[1]
GivenTypes(filter) ==
  IF filter.messageTypes = None THEN <<>> ELSE filter.messageTypes[1]
Offending(filter) ==
  {i \in DOMAIN GivenTypes(filter) : GivenTypes(filter)[i] \notin {"buy", "sell"}}
WellFormed(filter) ==
  /\ HasWord(filter.keyword)
  /\ GivenTypes(filter) # <<>>
  /\ Offending(filter) = {}

\* The errors about unknown types that name position n.
UnknownTypeErrors(errors, n) ==
  {k \in DOMAIN errors :
     errors[k][1] = "invalid message types for filter" /\ errors[k][2] = n}

\* The sequence s with only its positions in P, in their order.
RECURSIVE Pick(_, _)
Pick(s, P) ==
  IF s = <<>> THEN <<>>
  ELSE Pick(SubSeq(s, 1, Len(s) - 1), P) \o
       (IF Len(s) \in P THEN <<s[Len(s)]>> ELSE <<>>)

\* C30: a request is valid exactly when userId and channelId are given, there
\* is at least one filter, and every filter has a keyword that is not blank
\* and at least one message type, all of them buy or sell; a filter with
\* unknown types gets one error, which names the filter by its position
\* counted from 1 and lists its unknown values and no others, and no other
\* filter gets such an error; validating leaves the store as it is and calls
\* nothing of the database.
C30_Validate ==
  /\ [](Validated =>
          LET request == last.request
              filters == GivenFilters(request)
          IN  /\ result.isValid <=>
                   /\ Given(request.userId)
                   /\ Given(request.channelId)
                   /\ Len(filters) >= 1
                   /\ \A n \in DOMAIN filters : WellFormed(filters[n])
              /\ \A n \in DOMAIN filters :
                   LET about == UnknownTypeErrors(result.errors, n)
                   IN  IF Offending(filters[n]) = {}
                         THEN about = {}
                         ELSE /\ Cardinality(about) = 1
                              /\ \A k \in about :
                                   result.errors[k][3] =
                                     Pick(GivenTypes(filters[n]), Offending(filters[n]))
              /\ \A k \in DOMAIN result.errors :
                   result.errors[k][1] = "invalid message types for filter" =>
                     result.errors[k][2] \in DOMAIN filters
              /\ calls = <<>>)
  /\ [][Validated' => store' = store]_vars

\* C30 witness: of two filters the second has unknown types among known ones;
\* the one error about types names filter 2 and lists trade and x.
C30_Witness ==
  /\ Validated
  /\ store = FeedStore
  /\ last.request.keywordFilters # None
  /\ Len(last.request.keywordFilters[1]) = 2
  /\ last.request.keywordFilters[1][1] =
       [keyword |-> Some(<<" ", "a">>), messageTypes |-> Some(<<"buy", "sell">>)]
  /\ last.request.keywordFilters[1][2].messageTypes = Some(<<"trade", "buy", "x">>)
  /\ result.isValid = FALSE
  /\ \E k \in DOMAIN result.errors :
       result.errors[k] = <<"invalid message types for filter", 2, <<"trade", "x">>>>

\* C30 for a valid request.
C30_Valid ==
  /\ Validated
  /\ result.isValid
  /\ Len(last.request.keywordFilters[1]) = 2

\* C30 for a blank keyword: the only error of the request.
C30_BlankKeyword ==
  /\ Validated
  /\ result.errors = <<<<"keyword is required for filter", 1, <<>>>>>>
  /\ last.request.keywordFilters[1][1].keyword = Some(<<" ">>)

(***************************************************************************)
(* Properties of the commands handled concurrently.                        *)
(***************************************************************************)
Task(p) == tasks[p][1]
Returned(p, op) ==
  /\ pc(p) = "returned"
  /\ Task(p).call.op = op

FiltersIn(record) == IF record = None THEN <<>> ELSE record[1].keywordFilters

\* Every pair of keyword and message type of fs is in the record.
Holds(record, fs) ==
  \A i \in DOMAIN fs : \A t \in TypeSet(fs[i].messageTypes) :
    \E j \in DOMAIN FiltersIn(record) :
      /\ SameKeyword(FiltersIn(record)[j].keyword, fs[i].keyword)
      /\ t \in TypeSet(FiltersIn(record)[j].messageTypes)

\* C31: when two subscribe calls of one user have both read the same record
\* and both have returned, the record on file holds the filters of both
\* requests and those of the record they read: no update is lost.
C31_NoLostUpdate ==
  \A p, q \in Processes :
    (/\ p # q
     /\ Returned(p, "subscribe")
     /\ Returned(q, "subscribe")
     /\ Task(p).call.userId = Task(q).call.userId
     /\ Task(p).before = Task(q).before) =>
      LET record == store[Task(p).call.userId]
      IN  /\ Holds(record, Task(p).call.keywordFilters)
          /\ Holds(record, Task(q).call.keywordFilters)
          /\ Holds(record, FiltersIn(Task(p).before))

\* C32: once every command under way has returned, a user whose unsubscribe
\* returned true, and for whom no subscribe was issued, has no record, also
\* when a partialUnsubscribe that had read the record before the delete wrote
\* its reduced list after it.
C32_DeletedStaysDeleted ==
  \A p \in Processes :
    (/\ Returned(p, "unsubscribe")
     /\ Task(p).out.result = TRUE
     /\ \A q \in Processes :
          /\ pc(q) \in {"none", "returned"}
          /\ pc(q) = "returned" => Task(q).call.op # "subscribe") =>
      store[Task(p).call.userId] = None

(***************************************************************************)
(* Properties of the engine over a store whose calls may throw.            *)
(***************************************************************************)
\* C33: subscribe never shrinks a record: every pair of keyword and message
\* type on file for the user when subscribe read the store is on file when
\* it has returned, also when the read threw and the write went through.
C33_SubscribeKeepsRecord ==
  Returned(Handler, "subscribe") =>
    Holds(store[Task(Handler).call.userId], FiltersIn(Task(Handler).before))

\* C34: what the engine reports is what is on file, also when a write threw:
\* after subscribe the record is the value returned, after unsubscribe
\* returned true there is no record, after a successful partialUnsubscribe
\* the record holds remainingFilters, or there is none when nothing remains.
C34_ResultsAgreeWithStore ==
  LET record == store[Task(Handler).call.userId]
      reported == Task(Handler).out.result
  IN  /\ Returned(Handler, "subscribe") => record = Some(reported)
      /\ (Returned(Handler, "unsubscribe") /\ reported = TRUE) => record = None
      /\ (Returned(Handler, "partialUnsubscribe") /\ reported.success) =>
           IF reported.remainingCount = 0
             THEN record = None
             ELSE /\ record # None
                  /\ record[1].keywordFilters = reported.remainingFilters

(***************************************************************************)
(* Properties of the engine given requests of any shape.                   *)
(***************************************************************************)
ValidStored(filter) ==
  /\ filter.keyword # <<>>
  /\ filter.messageTypes # <<>>
  /\ TypeSet(filter.messageTypes) \subseteq {"buy", "sell"}

\* C35: every filter on file has a keyword that is not empty and at least one
\* message type, all of them buy or sell; and a subscribe whose request
\* validateSubscriptionRequest rejects leaves the record of the user as it was.
C35_OnlyValidFiltersStored ==
  /\ \A u \in Users : \A i \in DOMAIN FiltersIn(store[u]) :
       ValidStored(FiltersIn(store[u])[i])
  /\ (/\ After("subscribe")
      /\ ~validateSubscriptionRequest(
            asRequest(last.userId, last.channelId, last.keywordFilters)).isValid) =>
       store[last.userId] = pre

(***************************************************************************)
(* Properties of the shutdown of the listener.                             *)
(***************************************************************************)
\* C36: once onModuleDestroy has called disconnect, no socket is created and
\* none opens, whether the call came during the start delay, while a socket
\* was connecting or open, or while a reconnect was pending; and no reconnect
\* timer is pending once the socket has closed.
C36_StopIsFinal ==
  /\ [][destroyed => ~(ws # "connecting" /\ ws' = "connecting")]_vars
  /\ [][destroyed => ~(ws # "open" /\ ws' = "open")]_vars
  /\ []((destroyed /\ ws \in {"none", "closed"}) => ~reconnectTimeout)

\* The moves of the socket the listener holds: none or closed to connecting,
\* connecting to open, and from connecting or open to closed, at once or by
\* way of the close that disconnect asked for.
Moves ==
  {<<"none", "connecting">>, <<"closed", "connecting">>,
   <<"connecting", "open">>, <<"connecting", "closed">>, <<"open", "closed">>,
   <<"open", "closing">>, <<"connecting", "aborting">>,
   <<"closing", "closed">>, <<"aborting", "closed">>}

\* C37: the listener has one connection: a socket is created only when there
\* is none or the one before has closed, so at most one is connecting or
\* open; the close handler sets the reconnect timer only when none is
\* pending, so at most one is; no reconnect timer is pending while a socket
\* is connecting or open; and the socket moves from disconnected to
\* connecting to open and back to disconnected.
C37_SingleConnection ==
  /\ [][(ModuleInitTimer \/ ReconnectTimer) => ws \in {"none", "closed"}]_vars
  /\ [][Close => ~reconnectTimeout]_vars
  /\ [](reconnectTimeout => ws \notin {"connecting", "open"})
  /\ [][ws' # ws => <<ws, ws'>> \in Moves]_vars

\* C37 witness: the socket of the second reconnect is connecting and no
\* reconnect timer is pending.
C37_Witness ==
  /\ ws = "connecting"
  /\ reconnectAttempts = 2
  /\ ~reconnectTimeout
  /\ delay = 10000

\* C37 after the shutdown: the reconnect timer set by the close that the
\* shutdown caused is the only one, and the socket is closed.
C37_TimerAfterStop ==
  /\ destroyed
  /\ reconnectTimeout
  /\ ws = "closed"
  /\ pingInterval = 0

(***************************************************************************)
(* Properties of the key of an event.                                      *)
(***************************************************************************)
SameEvent(p, q) ==
  /\ p.player_id = q.player_id
  /\ p.content = q.content
  /\ p.message_type = q.message_type
  /\ p.channel = q.channel

\* C38: events that differ in player_id, content, message_type or channel
\* have different keys, also when the fields contain the joining character,
\* so the frame that delivers an event for the first time always starts its
\* broadcast.
C38_KeySeparatesEvents ==
  /\ [](\A p, q \in delivered :
          generateMessageId(Some(p)) = generateMessageId(Some(q)) => SameEvent(p, q))
  /\ [][\A message \in KeyFrames :
          (/\ KeyMessage(message)
           /\ \A p \in delivered : ~SameEvent(p, message.payload[1])) =>
             broadcasting' = message.payload]_vars

(***************************************************************************)
(* Properties of the ingestion of events.                                  *)
(***************************************************************************)
\* The channels of the subscriptions the event of the last broadcast matches,
\* those among them the broadcast tried to deliver to, and those that got
\* their message.
Due == {c \in Channels : MatchingUsers(c, Event) # {}}
Tried == {fanout.groups[g].channelId : g \in DOMAIN fanout.groups}
Served == {c \in Channels : SentTo(c) # {}}

\* C39: every event is ingested at least once: its broadcast tries to deliver
\* to the channel of each subscription it matches, and when the broadcast of
\* an event has left such a channel without its message, the frame that
\* delivers the event again starts its broadcast again instead of being
\* dropped for its key.
C39_AtLeastOnce ==
  /\ [](Broadcast => Due \subseteq Tried)
  /\ [][\A message \in IngestFrames :
          (/\ NewMessage(message)
           /\ Broadcast
           /\ fanout.payload = message.payload
           /\ ~(Due \subseteq Served)) =>
             broadcasting' = message.payload]_vars

====
